---------------------------- MODULE Spec2Model ----------------------------
(***************************************************************************)
(* Pottery rib designer: the parametric mesh generator, the custom curve   *)
(* smoother, the edge profile evaluator, the debounced rebuild and the     *)
(* mesh lifecycle of src/unnamed/part_001, and the legacy generator of     *)
(* src/js/main.js.                                                         *)
(*                                                                         *)
(* Reals are fixed-point integers: the real r is the integer r * Scale.    *)
(* Scale is a multiple of 1..10 and of 20, so every grid fraction i/n with *)
(* n <= 10 and every decimal literal of the source that is a multiple of   *)
(* 0.05 is exact.  Division truncates toward zero.  sin is Bhaskara's      *)
(* rational approximation (exact at 0, 30, 90, 150, 180 degrees, absolute  *)
(* error below 0.002), sqrt is the integer square root.                    *)
(***************************************************************************)
EXTENDS Integers, Sequences, FiniteSets, TLC

VARIABLES
    pc,                 \* position of the function-level specifications: "ready" | "done"
    fnArgs,             \* arguments of the pure function under evaluation
    fnResult,           \* its return value
    controls,           \* values of the input controls of the page
    customCurvePoints,  \* points drawn by the user for the custom shape
    segments,           \* divisions along the length
    widthSegments,      \* divisions along the width
    geometry,           \* the geometry returned by the last createRibGeometry
    sceneReady,         \* initScene has run: appScene exists
    timers,             \* pending setTimeout callbacks, in the order they were set
    updateTimeout,      \* the timer id held by the debounce (0: null)
    appRib,             \* the id of the current rib mesh (0: undefined)
    meshes,             \* the rib meshes that are in the scene or hold resources
    sinceLastEvent,     \* ms since the last debouncedUpdate, up to the window
    callsSinceEvent,    \* updateRib calls made by the debounce since that event
    burstLen,           \* events of the current burst (gaps below the window)
    builtInBurst,       \* a mesh was generated since the current burst began
    intermediateBuilt,  \* a later event of the same burst followed such a mesh
    rebuildsOfRequest,  \* mesh rebuilds caused by the latest rebuild request
    toast,              \* the last toast: its message, in parts, and its error flag
    statistics,         \* what updateStatistics last wrote into the statistics panel
    warnings,           \* which of the two parameter warnings are shown
    warningsBefore,     \* the warnings that were shown when the last generation began
    exported,           \* the outcome of the last export: the file, or the error raised
    isDrawing,          \* the mouse button is down on the drawing canvas
    drawingHistory      \* customCurvePoints as they were before the last stroke

fnVars == <<pc, fnArgs, fnResult>>
meshVars == <<controls, customCurvePoints, segments, widthSegments, geometry>>
uiVars == <<sceneReady, timers, updateTimeout, appRib, meshes, toast>>
histVars == <<sinceLastEvent, callsSinceEvent, burstLen, builtInBurst,
              intermediateBuilt, rebuildsOfRequest>>
statVars == <<statistics, warnings, warningsBefore>>
drawVars == <<isDrawing, drawingHistory>>
pageVars == <<statistics, warnings, warningsBefore, exported, isDrawing, drawingHistory>>
vars == <<pc, fnArgs, fnResult, controls, customCurvePoints, segments, widthSegments,
          geometry, sceneReady, timers, updateTimeout, appRib, meshes,
          sinceLastEvent, callsSinceEvent, burstLen, builtInBurst,
          intermediateBuilt, rebuildsOfRequest, toast, statistics, warnings, warningsBefore,
          exported, isDrawing, drawingHistory>>

----------------------------------------------------------------------------
(* Fixed-point arithmetic                                                   *)

Scale == 2 * 2 * 2 * 3 * 3 * 5 * 7

Abs(a) == IF a < 0 THEN -a ELSE a
Max(a, b) == IF a >= b THEN a ELSE b
Min(a, b) == IF a <= b THEN a ELSE b

\* a / b, truncated toward zero (b > 0)
Div(a, b) == IF a >= 0 THEN a \div b ELSE -((-a) \div b)

\* the decimal literal n/d
Dec(n, d) == Div(n * Scale, d)

\* product and quotient of two fixed-point numbers
Mul(a, b) == Div(a * b, Scale)
Quot(a, b) == Div(a * Scale, b)

Half == Dec(1, 2)

RECURSIVE ISqrtBetween(_, _, _)
ISqrtBetween(n, lo, hi) ==
    IF lo >= hi THEN lo
    ELSE LET mid == (lo + hi + 1) \div 2
         IN  IF mid * mid <= n THEN ISqrtBetween(n, mid, hi)
             ELSE ISqrtBetween(n, lo, mid - 1)

\* Math.sqrt of a fixed-point number in [0, 4]
Sqrt(v) == ISqrtBetween(v * Scale, 0, 2 * Scale)

\* Math.sin(u * PI) for u in [0, 1] (Bhaskara I)
SinPi(u) ==
    LET p == u * (Scale - u)
    IN  Div(16 * p, Div(5 * Scale * Scale - 4 * p, Scale))

\* Math.tan of an angle in whole degrees, 0 <= deg < 90
TanDeg(deg) ==
    Quot(SinPi(Div(deg * Scale, 180)), SinPi(Div((90 - deg) * Scale, 180)))

----------------------------------------------------------------------------
(* Geometry helper functions                                                *)

ShapeTags == {"rectangular", "oval", "circle", "teardrop", "kidney",
              "asymmetric-teardrop", "custom"}

\* getShapeModifier without the constant offsets of the oval and the circle
getShapeModifierNoOffset(t, s, shape) ==
    CASE shape = "oval" ->
            Mul(Sqrt(Max(0, Scale - Mul(2 * t - Scale, 2 * t - Scale))), Dec(8, 10))
      [] shape = "circle" ->
            Mul(Sqrt(Max(0, Scale - Mul(2 * t - Scale, 2 * t - Scale))), Dec(9, 10))
      [] shape = "teardrop" ->
            Mul(Scale - t, Dec(7, 10)) + Dec(3, 10)
      [] shape = "kidney" ->
            Scale - Mul(Mul(Mul(Abs(SinPi(t)), Dec(4, 10)), Abs(s - Half)), 2 * Scale)
      [] shape = "asymmetric-teardrop" ->
            Mul(Mul(Scale - t, Dec(7, 10)) + Dec(3, 10),
                IF s < Half THEN Dec(8, 10) ELSE Dec(12, 10))
      [] OTHER -> Scale

getShapeModifier(t, s, shape) ==
    CASE shape = "oval" ->
            Mul(Sqrt(Max(0, Scale - Mul(2 * t - Scale, 2 * t - Scale))), Dec(8, 10))
                + Dec(2, 10)
      [] shape = "circle" ->
            Mul(Sqrt(Max(0, Scale - Mul(2 * t - Scale, 2 * t - Scale))), Dec(9, 10))
                + Dec(1, 10)
      [] shape = "teardrop" ->
            Mul(Scale - t, Dec(7, 10)) + Dec(3, 10)
      [] shape = "kidney" ->
            Scale - Mul(Mul(Mul(Abs(SinPi(t)), Dec(4, 10)), Abs(s - Half)), 2 * Scale)
      [] shape = "asymmetric-teardrop" ->
            Mul(Mul(Scale - t, Dec(7, 10)) + Dec(3, 10),
                IF s < Half THEN Dec(8, 10) ELSE Dec(12, 10))
      [] OTHER -> Scale

ProfileTypes == {"straight", "sharp", "bevel", "miter", "rounded", "custom-angle"}

\* applyEdgeAngle whose sharp profile has no floor of 0.1
applyEdgeAngleSharpNoFloor(angleType, customAngle, thickness, angleEffect) ==
    IF angleType = "sharp"
    THEN Mul(Div(thickness, 2), Scale - Mul(angleEffect, Dec(95, 100)))
    ELSE Div(thickness, 2)

\* applyEdgeAngle whose cut profiles have no floor of 0.1
applyEdgeAngleNoFloor(angleType, customAngle, thickness, angleEffect) ==
    CASE angleType = "sharp" ->
            Mul(Div(thickness, 2), Scale - Mul(angleEffect, Dec(95, 100)))
      [] angleType = "bevel" ->
            Div(thickness, 2) - Mul(TanDeg(30), Mul(Mul(thickness, angleEffect), Half))
      [] angleType = "miter" ->
            Div(thickness, 2) - Mul(TanDeg(45), Mul(Mul(thickness, angleEffect), Half))
      [] angleType = "rounded" ->
            Mul(Div(thickness, 2), Scale - Mul(SinPi(Div(angleEffect, 2)), Dec(9, 10)))
      [] angleType = "custom-angle" ->
            Div(thickness, 2)
                - Mul(TanDeg(customAngle), Mul(Mul(thickness, angleEffect), Half))
      [] OTHER -> Div(thickness, 2)

applyEdgeAngle(angleType, customAngle, thickness, angleEffect) ==
    LET topZ == Div(thickness, 2)
    IN  CASE angleType = "straight" -> topZ
          [] angleType = "sharp" ->
                Max(Dec(1, 10), Mul(Div(thickness, 2), Scale - Mul(angleEffect, Dec(95, 100))))
          [] angleType = "bevel" ->
                Max(Dec(1, 10),
                    Div(thickness, 2) - Mul(TanDeg(30), Mul(Mul(thickness, angleEffect), Half)))
          [] angleType = "miter" ->
                Max(Dec(1, 10),
                    Div(thickness, 2) - Mul(TanDeg(45), Mul(Mul(thickness, angleEffect), Half)))
          [] angleType = "rounded" ->
                Mul(Div(thickness, 2), Scale - Mul(SinPi(Div(angleEffect, 2)), Dec(9, 10)))
          [] angleType = "custom-angle" ->
                Max(Dec(1, 10),
                    Div(thickness, 2)
                        - Mul(TanDeg(customAngle), Mul(Mul(thickness, angleEffect), Half)))
          [] OTHER -> topZ

----------------------------------------------------------------------------
(* Custom curve smoothing                                                   *)

\* number of output points of smoothCurvePoints
resolution == 100

\* Array.prototype.sort with the comparator (a, b) => a.x - b.x: a stable
\* insertion of each point after the last point whose x is not greater
RECURSIVE InsertByX(_, _)
InsertByX(sorted, p) ==
    IF sorted = <<>> THEN <<p>>
    ELSE IF sorted[Len(sorted)].x <= p.x THEN Append(sorted, p)
    ELSE Append(InsertByX(SubSeq(sorted, 1, Len(sorted) - 1), p), sorted[Len(sorted)])

RECURSIVE SortByX(_)
SortByX(points) ==
    IF points = <<>> THEN <<>>
    ELSE InsertByX(SortByX(SubSeq(points, 1, Len(points) - 1)), points[Len(points)])

\* the Catmull-Rom formula with the tension left out of the first-derivative term
CatmullRomLooseSlope(p0, p1, p2, p3, localT, tension) ==
    Max(0, Min(Scale,
        Div((2 * p1)
            + Mul(p2 - p0, localT)
            + Mul(Mul(2 * p0 - 5 * p1 + 4 * p2 - p3, Mul(localT, localT)), tension)
            + Mul(Mul(3 * p1 - p0 - 3 * p2 + p3, Mul(Mul(localT, localT), localT)),
                  tension), 2)))

\* the Catmull-Rom formula of smoothCurvePoints, clamped to [0, 1]
CatmullRom(p0, p1, p2, p3, localT, tension) ==
    Max(0, Min(Scale,
        Div((2 * p1)
            + Mul(Mul(p2 - p0, localT), tension)
            + Mul(Mul(2 * p0 - 5 * p1 + 4 * p2 - p3, Mul(localT, localT)), tension)
            + Mul(Mul(3 * p1 - p0 - 3 * p2 + p3, Mul(Mul(localT, localT), localT)),
                  tension), 2)))

\* the y of the sample of segment index (0-based) at localT
SplineAt(sorted, index, nextIndex, localT, tension) ==
    CatmullRom(sorted[Max(0, index - 1) + 1].y, sorted[index + 1].y,
               sorted[nextIndex + 1].y,
               sorted[Min(Len(sorted) - 1, nextIndex + 1) + 1].y, localT, tension)

\* the y of output sample i (0-based) over the sorted control points:
\* t * (sorted.length - 1) is i * (n - 1) / (resolution - 1)
SplineY(sorted, i, tension) ==
    SplineAt(sorted, (i * (Len(sorted) - 1)) \div (resolution - 1),
             Min(((i * (Len(sorted) - 1)) \div (resolution - 1)) + 1, Len(sorted) - 1),
             Div(((i * (Len(sorted) - 1)) % (resolution - 1)) * Scale, resolution - 1),
             tension)

\* smoothCurvePoints sorting its argument in place instead of a copy
smoothCurvePointsInPlace(points, smoothingFactor) ==
    IF Len(points) < 3 THEN [ret |-> points, points |-> points]
    ELSE LET sorted == SortByX(points)
             tension == Div(smoothingFactor * Scale, 100)
         IN  [ret |-> [k \in 1..resolution |->
                         [x |-> Div((k - 1) * Scale, resolution - 1),
                          y |-> SplineY(sorted, k - 1, tension)]],
              points |-> sorted]

\* smoothCurvePoints dividing by resolution instead of resolution - 1
smoothCurvePointsOffByOne(points, smoothingFactor) ==
    IF Len(points) < 3 THEN [ret |-> points, points |-> points]
    ELSE LET sorted == SortByX(points)
             tension == Div(smoothingFactor * Scale, 100)
         IN  [ret |-> [k \in 1..resolution |->
                         [x |-> Div((k - 1) * Scale, resolution),
                          y |-> SplineY(sorted, k - 1, tension)]],
              points |-> points]

\* ret: the returned array; points: the argument array as the call leaves it
smoothCurvePoints(points, smoothingFactor) ==
    IF Len(points) < 3 THEN [ret |-> points, points |-> points]
    ELSE LET sorted == SortByX(points)
             tension == Div(smoothingFactor * Scale, 100)
         IN  [ret |-> [k \in 1..resolution |->
                         [x |-> Div((k - 1) * Scale, resolution - 1),
                          y |-> SplineY(sorted, k - 1, tension)]],
              points |-> points]

----------------------------------------------------------------------------
(* Main geometry creation                                                   *)

\* the value of an absent object (null, undefined)
Null == [null |-> TRUE]

\* the null smoothedCurve of createRibGeometry (a smoothed curve is never empty)
NoCurve == <<>>

\* the shapeModifier read from the smoothed custom curve
curveShapeModifier(s, t, smoothedCurve) ==
    LET pointIndex == Div(t * (Len(smoothedCurve) - 1), Scale)
        point == smoothedCurve[Min(pointIndex, Len(smoothedCurve) - 1) + 1]
        curveModifier == Scale - Mul(Abs(point.y - Half), Dec(15, 10))
        clampedModifier == Max(Dec(1, 10), Min(Scale, curveModifier))
    IN  Mul(Scale, Scale - s) + Mul(clampedModifier, s)

\* the thickness the nearest edge asks for
targetEdgeThickness(params, isNearTop, isNearBottom, isNearLeft) ==
    IF params.edgeThicknessApply = "asymmetric"
    THEN CASE isNearTop -> params.edgeTop
           [] ~isNearTop /\ isNearBottom -> params.edgeBottom
           [] ~isNearTop /\ ~isNearBottom /\ isNearLeft -> params.edgeLeft
           [] OTHER -> params.edgeRight
    ELSE params.edgeThickness

\* edgeAngleType asking the left edge before the bottom edge
edgeAngleTypeLeftFirst(params, isNearTop, isNearBottom, isNearLeft) ==
    IF params.angleType = "asymmetric"
    THEN CASE isNearTop -> params.angleTop
           [] ~isNearTop /\ isNearLeft -> params.angleLeft
           [] ~isNearTop /\ ~isNearLeft /\ isNearBottom -> params.angleBottom
           [] OTHER -> params.angleRight
    ELSE params.angleType

\* the profile of the nearest edge
edgeAngleType(params, isNearTop, isNearBottom, isNearLeft) ==
    IF params.angleType = "asymmetric"
    THEN CASE isNearTop -> params.angleTop
           [] ~isNearTop /\ isNearBottom -> params.angleBottom
           [] ~isNearTop /\ ~isNearBottom /\ isNearLeft -> params.angleLeft
           [] OTHER -> params.angleRight
    ELSE params.angleType

\* shouldApplyEdgeThickness treating the shaping mode like the uniform one
shouldApplyEdgeThicknessAnyEdge(params, isShapingEdge) ==
    params.edgeThicknessApply \in {"all", "asymmetric", "shaping"}

shouldApplyEdgeThickness(params, isShapingEdge) ==
    \/ params.edgeThicknessApply = "all"
    \/ params.edgeThicknessApply = "asymmetric"
    \/ (params.edgeThicknessApply = "shaping" /\ isShapingEdge)

\* shouldApplyAngle without the test of the bottom edge
shouldApplyAngleNoBottom(params, distFromTop, distFromBottom, distFromLeft, distFromRight, minDistToEdge) ==
    \/ params.applyAllEdges
    \/ params.shape = "oval"
    \/ params.shape = "custom"
    \/ distFromTop = minDistToEdge
    \/ distFromLeft <= params.edgeDepth
    \/ distFromRight <= params.edgeDepth

shouldApplyAngle(params, distFromTop, distFromBottom, distFromLeft, distFromRight, minDistToEdge) ==
    \/ params.applyAllEdges
    \/ params.shape = "oval"
    \/ params.shape = "custom"
    \/ distFromTop = minDistToEdge
    \/ distFromBottom = minDistToEdge
    \/ distFromLeft <= params.edgeDepth
    \/ distFromRight <= params.edgeDepth

\* vertexFromThickness whose bottom surface mirrors the profiled top surface
vertexFromThicknessMirrored(params, curveOffset, y, distFromTop, distFromBottom, distFromLeft, distFromRight, minDistToEdge, angleEffect, currentThickness) ==
    [y |-> y,
     topZ |->
        IF minDistToEdge <= params.edgeDepth
        THEN Mul(applyEdgeAngle(edgeAngleType(params, distFromTop = minDistToEdge,
                                              distFromBottom = minDistToEdge,
                                              distFromLeft = minDistToEdge),
                                params.customAngle, currentThickness, angleEffect)
                     + curveOffset,
                 angleEffect)
                + Mul(Div(currentThickness, 2) + curveOffset, Scale - angleEffect)
        ELSE Div(currentThickness, 2) + curveOffset,
     bottomZ |->
        IF minDistToEdge <= params.edgeDepth
        THEN -(Mul(applyEdgeAngle(edgeAngleType(params, distFromTop = minDistToEdge,
                                                distFromBottom = minDistToEdge,
                                                distFromLeft = minDistToEdge),
                                  params.customAngle, currentThickness, angleEffect)
                       + curveOffset,
                   angleEffect)
                + Mul(Div(currentThickness, 2) + curveOffset, Scale - angleEffect))
        ELSE (-Div(currentThickness, 2)) - curveOffset]

\* calculateVertexPosition from the thickness at the vertex on: the edge profile
vertexFromThickness(params, curveOffset, y, distFromTop, distFromBottom, distFromLeft, distFromRight, minDistToEdge, angleEffect, currentThickness) ==
    [y |-> y,
     topZ |->
        IF /\ minDistToEdge <= params.edgeDepth
           /\ shouldApplyAngle(params, distFromTop, distFromBottom, distFromLeft,
                               distFromRight, minDistToEdge)
        THEN Mul(applyEdgeAngle(edgeAngleType(params, distFromTop = minDistToEdge,
                                              distFromBottom = minDistToEdge,
                                              distFromLeft = minDistToEdge),
                                params.customAngle, currentThickness, angleEffect)
                     + curveOffset,
                 angleEffect)
                + Mul(Div(currentThickness, 2) + curveOffset, Scale - angleEffect)
        ELSE Div(currentThickness, 2) + curveOffset,
     bottomZ |-> (-Div(currentThickness, 2)) - curveOffset]

\* calculateVertexPosition from the distance to the nearest edge on: the thickness
vertexFromEdgeProgress(params, curveOffset, y, distFromTop, distFromBottom, distFromLeft, distFromRight, minDistToEdge, edgeProgress) ==
    vertexFromThickness(params, curveOffset, y, distFromTop, distFromBottom,
        distFromLeft, distFromRight, minDistToEdge, Scale - edgeProgress,
        IF /\ minDistToEdge <= params.edgeDepth
           /\ shouldApplyEdgeThickness(params, distFromTop = minDistToEdge)
        THEN Mul(targetEdgeThickness(params, distFromTop = minDistToEdge,
                                     distFromBottom = minDistToEdge,
                                     distFromLeft = minDistToEdge),
                 Scale - edgeProgress)
                + Mul(params.thickness, edgeProgress)
        ELSE params.thickness)

\* calculateVertexPosition from the four edge distances on
vertexFromDistances(params, curveOffset, y, distFromTop, distFromBottom, distFromLeft, distFromRight, minDistToEdge) ==
    vertexFromEdgeProgress(params, curveOffset, y, distFromTop, distFromBottom,
        distFromLeft, distFromRight, minDistToEdge,
        Quot(minDistToEdge, params.edgeDepth))

\* calculateVertexPosition from the shape modifier on
vertexFromShapeModifier(s, t, params, curveOffset, shapeModifier, actualWidth) ==
    vertexFromDistances(params, curveOffset,
        Mul(Mul(s - Half, params.width), shapeModifier),
        Mul(actualWidth, Scale - s), Mul(actualWidth, s),
        Mul(params.length, t), Mul(params.length, Scale - t),
        Min(Min(Mul(actualWidth, Scale - s), Mul(actualWidth, s)),
            Min(Mul(params.length, t), Mul(params.length, Scale - t))))

vertexWithModifier(s, t, params, curveOffset, shapeModifier) ==
    vertexFromShapeModifier(s, t, params, curveOffset, shapeModifier,
                            Mul(params.width, Abs(shapeModifier)))

calculateVertexPosition(x, s, t, params, smoothedCurve, wSegments, curveOffset) ==
    vertexWithModifier(s, t, params, curveOffset,
        IF smoothedCurve # NoCurve
        THEN curveShapeModifier(s, t, smoothedCurve)
        ELSE getShapeModifier(t, s, params.shape))

\* vertexGrid counting widthSegments instead of widthSegments + 1 points per row
vertexGridShortRow(i, j, wSegments) ==
    [top |-> 2 * (i * wSegments + j), bottom |-> 2 * (i * wSegments + j) + 1]

\* vertexGrid[i][j] of createRibGeometry: the 0-based indices of the two vertices
\* pushed for grid point (i, j)
vertexGrid(i, j, wSegments) ==
    [top |-> 2 * (i * (wSegments + 1) + j), bottom |-> 2 * (i * (wSegments + 1) + j) + 1]

\* the twelve indices pushed for grid cell (i, j): two top and two bottom triangles
CapFaces(i, j, wSegments) ==
    LET v00 == vertexGrid(i, j, wSegments)
        v10 == vertexGrid(i + 1, j, wSegments)
        v11 == vertexGrid(i + 1, j + 1, wSegments)
        v01 == vertexGrid(i, j + 1, wSegments)
    IN  <<v00.top, v10.top, v11.top,
          v00.top, v11.top, v01.top,
          v00.bottom, v11.bottom, v10.bottom,
          v00.bottom, v01.bottom, v11.bottom>>

\* the twelve indices pushed for step i of the left/right wall loop
SideWallFaces(i, wSegments) ==
    LET v0 == vertexGrid(i, 0, wSegments)
        v1 == vertexGrid(i + 1, 0, wSegments)
        v0r == vertexGrid(i, wSegments, wSegments)
        v1r == vertexGrid(i + 1, wSegments, wSegments)
    IN  <<v0.top, v0.bottom, v1.bottom,
          v0.top, v1.bottom, v1.top,
          v0r.top, v1r.top, v1r.bottom,
          v0r.top, v1r.bottom, v0r.bottom>>

\* the twelve indices pushed for step j of the front/back wall loop
EndWallFaces(j, nSegments, wSegments) ==
    LET v0 == vertexGrid(0, j, wSegments)
        v1 == vertexGrid(0, j + 1, wSegments)
        v0b == vertexGrid(nSegments, j, wSegments)
        v1b == vertexGrid(nSegments, j + 1, wSegments)
    IN  <<v0.top, v1.top, v1.bottom,
          v0.top, v1.bottom, v0.bottom,
          v0b.top, v0b.bottom, v1b.bottom,
          v0b.top, v1b.bottom, v1b.top>>

\* the concatenation f(0) \o f(1) \o ... \o f(n - 1)
RECURSIVE ConcatTo(_, _)
ConcatTo(f, n) == IF n = 0 THEN <<>> ELSE ConcatTo(f, n - 1) \o f[n - 1]

\* the index buffer without the front and back walls
BuildIndicesNoEndWalls(nSegments, wSegments) ==
    ConcatTo([k \in 0..(nSegments * wSegments - 1) |->
                 CapFaces(k \div wSegments, k % wSegments, wSegments)],
             nSegments * wSegments)
    \o ConcatTo([i \in 0..(nSegments - 1) |-> SideWallFaces(i, wSegments)], nSegments)

\* the index buffer of createRibGeometry for a grid of nSegments x wSegments cells
BuildIndices(nSegments, wSegments) ==
    ConcatTo([k \in 0..(nSegments * wSegments - 1) |->
                 CapFaces(k \div wSegments, k % wSegments, wSegments)],
             nSegments * wSegments)
    \o ConcatTo([i \in 0..(nSegments - 1) |-> SideWallFaces(i, wSegments)], nSegments)
    \o ConcatTo([j \in 0..(wSegments - 1) |-> EndWallFaces(j, nSegments, wSegments)],
                wSegments)

\* the vertex data of grid point (i, j): t = i / segments, s = j / widthSegments
vertexData(params, smoothedCurve, wSegments, j, t) ==
    [x |-> Mul(t - Half, params.length),
     d |-> calculateVertexPosition(
               Mul(t - Half, params.length), Div(j * Scale, wSegments), t, params,
               smoothedCurve, wSegments,
               Mul(Mul(SinPi(t), params.thickness),
                   Div(params.longitudinalCurve * Scale, 100)) * 3)]

\* the top (even v) or bottom (odd v) vertex pushed for a grid point
pushedVertex(data, v) ==
    <<data.x, data.d.y, IF v % 2 = 0 THEN data.d.topZ ELSE data.d.bottomZ>>

\* the vertex buffer of createRibGeometry, one <<x, y, z>> per vertex
BuildVertices(params, smoothedCurve, nSegments, wSegments) ==
    LET grid == [i \in 0..nSegments, j \in 0..wSegments |->
                    vertexData(params, smoothedCurve, wSegments, j,
                               Div(i * Scale, nSegments))]
    IN  [v \in 1..(2 * (nSegments + 1) * (wSegments + 1)) |->
            pushedVertex(grid[((v - 1) \div 2) \div (wSegments + 1),
                              ((v - 1) \div 2) % (wSegments + 1)], v - 1)]

\* getGeometryParameters: the parameter record collected from the controls
getGeometryParameters(c) ==
    [length |-> c.length,
     width |-> c.width,
     thickness |-> c.thickness,
     edgeThickness |-> c.edgeThickness,
     edgeThicknessApply |-> c.edgeThicknessApply,
     edgeTop |-> IF c.edgeThicknessApply = "asymmetric" THEN c.edgeTop ELSE Null,
     edgeBottom |-> IF c.edgeThicknessApply = "asymmetric" THEN c.edgeBottom ELSE Null,
     edgeLeft |-> IF c.edgeThicknessApply = "asymmetric" THEN c.edgeLeft ELSE Null,
     edgeRight |-> IF c.edgeThicknessApply = "asymmetric" THEN c.edgeRight ELSE Null,
     shape |-> c.shape,
     angleType |-> c.angleType,
     angleTop |-> IF c.angleType = "asymmetric" THEN c.angleTop ELSE Null,
     angleBottom |-> IF c.angleType = "asymmetric" THEN c.angleBottom ELSE Null,
     angleLeft |-> IF c.angleType = "asymmetric" THEN c.angleLeft ELSE Null,
     angleRight |-> IF c.angleType = "asymmetric" THEN c.angleRight ELSE Null,
     customAngle |-> c.edgeAngle,
     edgeDepth |-> c.edgeDepth,
     applyAllEdges |-> c.applyAllEdges,
     longitudinalCurve |-> c.longitudinalCurve]

\* createRibGeometry: the geometry built from the parameter record read from the
\* controls, the drawn curve and the smoothing amount; curvePoints is the
\* customCurvePoints array as the call leaves it
\* validateParameters warning at an edge thickness of 0.5 mm as well
validateParametersInclusive(params) ==
    [edgeThickness |-> params.edgeThickness <= Half,
     edgeDepth |-> \/ params.edgeDepth > Div(params.width, 2)
                   \/ params.edgeDepth > Div(params.length, 2)]

\* validateParameters: the warnings it leaves shown
validateParameters(params) ==
    [edgeThickness |-> params.edgeThickness < Half,
     edgeDepth |-> \/ params.edgeDepth > Div(params.width, 2)
                   \/ params.edgeDepth > Div(params.length, 2)]

\* the grain of the coordinates in the volume sum: a twentieth of a mm
Grain == Scale \div 20

\* a coordinate to the nearest twentieth of a mm
Twentieths(v) ==
    IF v >= 0 THEN (2 * v + Grain) \div (2 * Grain)
    ELSE -((2 * (-v) + Grain) \div (2 * Grain))

\* the position of the vertex with the 0-based index, in twentieths of a mm
PositionOf(vertices, index) ==
    <<Twentieths(vertices[index + 1][1]), Twentieths(vertices[index + 1][2]),
      Twentieths(vertices[index + 1][3])>>

\* the term of one triangle with a third instead of a sixth of the determinant
TetraVolumeThird(v1, v2, v3) ==
    Abs(v1[1] * (v2[2] * v3[3] - v2[3] * v3[2])
        + v2[1] * (v3[2] * v1[3] - v3[3] * v1[2])
        + v3[1] * (v1[2] * v2[3] - v1[3] * v2[2])) \div 3

\* the term of one triangle in the volume sum of updateStatistics
TetraVolume(v1, v2, v3) ==
    Abs(v1[1] * (v2[2] * v3[3] - v2[3] * v3[2])
        + v2[1] * (v3[2] * v1[3] - v3[3] * v1[2])
        + v3[1] * (v1[2] * v2[3] - v1[3] * v2[2])) \div 6

\* the volume sum over the triangles first..last, in (mm/20)^3
RECURSIVE SumVolume(_, _, _, _)
SumVolume(vertices, indices, first, last) ==
    IF first > last THEN 0
    ELSE IF first = last
    THEN TetraVolume(PositionOf(vertices, indices[3 * first - 2]),
                     PositionOf(vertices, indices[3 * first - 1]),
                     PositionOf(vertices, indices[3 * first]))
    ELSE SumVolume(vertices, indices, first, (first + last) \div 2)
         + SumVolume(vertices, indices, (first + last) \div 2 + 1, last)

\* needsSupports with the limit of 30 degrees included
needsSupportsUpTo30(params) ==
    \/ params.angleType = "sharp"
    \/ (params.angleType = "custom-angle" /\ params.customAngle <= 30)

needsSupports(params) ==
    \/ params.angleType = "sharp"
    \/ (params.angleType = "custom-angle" /\ params.customAngle < 30)

orientationText(params) ==
    IF needsSupports(params) THEN "On Edge"
    ELSE IF params.longitudinalCurve > 20 THEN "Flat (curved)"
    ELSE "Flat"

comparison(size) ==
    IF size < 60 * Scale THEN "Smaller than average palm"
    ELSE IF size > 120 * Scale THEN "Larger than average palm"
    ELSE "Approximately palm-sized"

orientationRecommendation(params) ==
    IF needsSupports(params) THEN "Print on edge with supports"
    ELSE IF params.longitudinalCurve > 20
    THEN "Flat on build plate (curved ribs may need support under the curve)"
    ELSE "Flat on build plate"

\* the statistics panel for a volume sum in (mm/20)^3: volume.toFixed(2) in
\* hundredths of a cm3, weight.toFixed(1) in tenths of a g, surfaceArea.toFixed(1)
\* in tenths of a cm2
statisticsPanel(volume, params) ==
    [volume |-> (volume + 40000) \div 80000,
     weight |-> (((volume \div 1000) * 124) + 40000) \div 80000,
     surface |-> ((Twentieths(params.length) * Twentieths(params.width)) + 1000) \div 2000,
     needsSupports |-> needsSupports(params),
     orientation |-> orientationText(params),
     comparison |-> comparison(Max(params.length, params.width)),
     supportRecommendation |-> IF needsSupports(params)
                               THEN "Recommended for steep angles"
                               ELSE "Usually not needed",
     orientationRecommendation |-> orientationRecommendation(params)]

\* updateStatistics: what it writes into the statistics panel
updateStatistics(vertices, indices, params) ==
    statisticsPanel(SumVolume(vertices, indices, 1, Len(indices) \div 3), params)

\* createRibGeometry once the buffers are built
measuredGeometry(params, curvePoints, vertices, indices) ==
    [vertices |-> vertices,
     indices |-> indices,
     curvePoints |-> curvePoints,
     warnings |-> validateParameters(params),
     statistics |-> updateStatistics(vertices, indices, params)]

\* createRibGeometry once the custom curve is smoothed
ribGeometry(params, smoothing, nSegments, wSegments) ==
    measuredGeometry(params, smoothing.points,
                     BuildVertices(params, smoothing.ret, nSegments, wSegments),
                     BuildIndices(nSegments, wSegments))

createRibGeometry(params, curvePoints, smoothingFactor, nSegments, wSegments) ==
    ribGeometry(params,
                IF params.shape = "custom" /\ Len(curvePoints) > 0
                THEN smoothCurvePoints(curvePoints, smoothingFactor)
                ELSE [ret |-> NoCurve, points |-> curvePoints],
                nSegments, wSegments)

----------------------------------------------------------------------------
(* Update functions: timers and the mesh lifecycle                          *)

\* delay of the deferred rebuild of updateRib, ms
UpdateDelay == 10

\* delay of debouncedUpdate, ms
DebounceDelay == 100

TimerIds(tms) == {tms[k].id : k \in DOMAIN tms}

\* the id returned by setTimeout: one that no pending timer and no variable holds
FreshTimerId(tms, held) ==
    CHOOSE i \in 1..(Len(tms) + 2) :
        /\ i \notin TimerIds(tms) \cup {held}
        /\ \A k \in 1..(i - 1) : k \in TimerIds(tms) \cup {held}

\* setTimeout(callback, delay); latest marks the timers of the latest request
SetTimeout(tms, id, kind, delay) ==
    Append(tms, [id |-> id, kind |-> kind, remaining |-> delay, latest |-> TRUE])

\* clearTimeout(id): no effect when no pending timer has that id
ClearTimeout(tms, id) == SelectSeq(tms, LAMBDA tm : tm.id # id)

\* debouncedUpdate on the pair [timers, updateTimeout]
debouncedUpdate(st) ==
    LET cleared == ClearTimeout(st.timers, st.updateTimeout)
        id == FreshTimerId(cleared, st.updateTimeout)
    IN  [timers |-> SetTimeout(cleared, id, "debounce", DebounceDelay),
         updateTimeout |-> id]

\* updateRib: shows the overlay and defers the rebuild
updateRib(st) ==
    [timers |-> SetTimeout(st.timers, FreshTimerId(st.timers, st.updateTimeout),
                           "rebuild", UpdateDelay),
     updateTimeout |-> st.updateTimeout]

\* the clean-up of the old mesh that forgets to dispose the material
CleanUpOldMeshKeepMaterial(store, rib) ==
    IF rib # 0
    THEN [store EXCEPT ![rib].inScene = FALSE, ![rib].geometryDisposed = TRUE]
    ELSE store

\* the clean-up of the old mesh in the deferred callback of updateRib
CleanUpOldMesh(store, rib) ==
    IF rib # 0
    THEN [store EXCEPT ![rib].inScene = FALSE, ![rib].geometryDisposed = TRUE,
                       ![rib].materialDisposed = TRUE]
    ELSE store

\* the id of a new mesh object: the smallest one no mesh of the store has
FreshMeshId(store) ==
    CHOOSE i \in 1..(Cardinality(DOMAIN store) + 1) :
        /\ i \notin DOMAIN store
        /\ \A k \in 1..(i - 1) : k \in DOMAIN store

\* appRib = new THREE.Mesh(geometry, material); appScene.add(appRib)
InstallMesh(store, id, g) ==
    [i \in DOMAIN store \cup {id} |->
        IF i = id
        THEN [geometry |-> g, inScene |-> TRUE, geometryDisposed |-> FALSE,
              materialDisposed |-> FALSE]
        ELSE store[i]]

\* showToast(message, isError)
showToast(message, isError) == [message |-> message, isError |-> isError]

\* the meshes the program can still reach or that still hold resources: a mesh
\* that is out of the scene, disposed and unreferenced is garbage
Collect(store, rib) ==
    LET live == {i \in DOMAIN store :
                    \/ i = rib
                    \/ store[i].inScene
                    \/ ~store[i].geometryDisposed
                    \/ ~store[i].materialDisposed}
    IN  [i \in live |-> store[i]]

----------------------------------------------------------------------------
(* The legacy generator of src/js/main.js                                   *)

\* Math.PI
Pi == Div(355 * Scale, 113)

\* Math.sin of x radians, x >= 0
Sin(x) ==
    LET u == Quot(x, Pi) % (2 * Scale)
    IN  IF u <= Scale THEN SinPi(u) ELSE -SinPi(u - Scale)

\* the outline that createRibGeometry of main.js draws into the THREE.Shape; the
\* quadratic curve is kept by its middle point
LegacyOutline(params, curvePoints) ==
    LET width == params.size
        thickness == params.thickness
    IN  CASE params.edgeType = "custom" /\ Len(curvePoints) > 0 ->
                <<<<curvePoints[1].x, curvePoints[1].y>>>>
                    \o [k \in 1..Len(curvePoints) |-> <<curvePoints[k].x, curvePoints[k].y>>]
          [] params.edgeType = "bevel" ->
                <<<<0, 0>>, <<Mul(width, Dec(8, 10)), 0>>, <<width, thickness>>,
                  <<0, thickness>>>>
          [] params.edgeType = "curved" ->
                <<<<0, 0>>, <<Div(width, 2), Div(Mul(thickness, params.curve) * 10, 2)>>,
                  <<width, 0>>, <<width, thickness>>, <<0, thickness>>>>
          [] OTHER ->
                <<<<0, 0>>, <<width, 0>>, <<width, thickness>>, <<0, thickness>>>>

\* the position buffer of new THREE.ExtrudeGeometry(shape, {depth: 5, steps: 1}),
\* cut to count positions: the outline on the front face, then on the back face,
\* and so on
ExtrudeGeometry(outline, count) ==
    [k \in 1..count |->
        LET p == outline[((k - 1) % Len(outline)) + 1]
        IN  <<p[1], p[2],
              IF ((k - 1) \div Len(outline)) % 2 = 0 THEN 0 ELSE 5 * Scale>>]

\* the legacy generator with ridges that take their height from Math.random
createRibGeometryRandomRidges(params, curvePoints, count, random) ==
    LET position == ExtrudeGeometry(LegacyOutline(params, curvePoints), count)
    IN  [k \in 1..count |->
            LET i == k - 1
            IN  IF params.texture = "ridges" /\ i % 10 = 0
                THEN <<position[k][1], position[k][2],
                       position[k][3] + random[(i \div 10) + 1] * 2>>
                ELSE IF params.texture = "dots" /\ i % 15 = 0
                THEN <<position[k][1], position[k][2],
                       position[k][3] + random[(i \div 15) + 1] * 2>>
                ELSE position[k]]

\* createRibGeometry of main.js; random[n] is what the n-th call of Math.random
\* returns
createRibGeometryLegacy(params, curvePoints, count, random) ==
    LET position == ExtrudeGeometry(LegacyOutline(params, curvePoints), count)
    IN  [k \in 1..count |->
            LET i == k - 1
            IN  IF params.texture = "ridges" /\ i % 10 = 0
                THEN <<position[k][1], position[k][2],
                       position[k][3] + Sin(Div(i * Scale, 5))>>
                ELSE IF params.texture = "dots" /\ i % 15 = 0
                THEN <<position[k][1], position[k][2],
                       position[k][3] + random[(i \div 15) + 1] * 2>>
                ELSE position[k]]

----------------------------------------------------------------------------
(* Preset configurations                                                    *)

Presets ==
    [name \in {"thin-flexible", "thick-rigid", "kidney-style", "trimming", "throwing",
               "smoothing"} |->
        CASE name = "thin-flexible" ->
                [length |-> 120 * Scale, width |-> 60 * Scale, thickness |-> 3 * Scale,
                 edgeThickness |-> Scale, edgeDepth |-> 15 * Scale,
                 shape |-> "oval", angleType |-> "rounded"]
          [] name = "thick-rigid" ->
                [length |-> 100 * Scale, width |-> 70 * Scale, thickness |-> 10 * Scale,
                 edgeThickness |-> 8 * Scale, edgeDepth |-> 12 * Scale,
                 shape |-> "rectangular", angleType |-> "miter"]
          [] name = "kidney-style" ->
                [length |-> 110 * Scale, width |-> 80 * Scale, thickness |-> 6 * Scale,
                 edgeThickness |-> 3 * Scale, edgeDepth |-> 10 * Scale,
                 shape |-> "kidney", angleType |-> "rounded"]
          [] name = "trimming" ->
                [length |-> 70 * Scale, width |-> 40 * Scale, thickness |-> 5 * Scale,
                 edgeThickness |-> 2 * Scale, edgeDepth |-> 8 * Scale,
                 shape |-> "teardrop", angleType |-> "bevel"]
          [] name = "throwing" ->
                [length |-> 150 * Scale, width |-> 90 * Scale, thickness |-> 8 * Scale,
                 edgeThickness |-> 5 * Scale, edgeDepth |-> 15 * Scale,
                 shape |-> "kidney", angleType |-> "rounded"]
          [] OTHER ->
                [length |-> 100 * Scale, width |-> 50 * Scale, thickness |-> 4 * Scale,
                 edgeThickness |-> Dec(15, 10), edgeDepth |-> 20 * Scale,
                 shape |-> "oval", angleType |-> "rounded"]]

\* the controls after a preset has written its seven values
WithPreset(c, config) ==
    [c EXCEPT !.length = config.length, !.width = config.width,
              !.thickness = config.thickness, !.edgeThickness = config.edgeThickness,
              !.edgeDepth = config.edgeDepth, !.shape = config.shape,
              !.angleType = config.angleType]

----------------------------------------------------------------------------
(* Bounds of the function-level specifications                              *)

MaxGridDen == 6

\* the state of the page before any control is touched: the start values of the
\* controls, nothing drawn, nothing generated
DefaultControls ==
    [length |-> 100 * Scale, width |-> 60 * Scale, thickness |-> 6 * Scale,
     edgeThickness |-> 3 * Scale, edgeThicknessApply |-> "all",
     edgeTop |-> 6 * Scale, edgeBottom |-> 6 * Scale,
     edgeLeft |-> 6 * Scale, edgeRight |-> 6 * Scale,
     shape |-> "rectangular", angleType |-> "straight",
     angleTop |-> "miter", angleBottom |-> "miter",
     angleLeft |-> "miter", angleRight |-> "miter",
     edgeAngle |-> 45, edgeDepth |-> 10 * Scale, applyAllEdges |-> FALSE,
     longitudinalCurve |-> 0, smoothingAmount |-> 50]

MeshIdle ==
    /\ controls = DefaultControls
    /\ customCurvePoints = <<>>
    /\ segments = 1
    /\ widthSegments = 1
    /\ geometry = Null

\* the globals of the script before the load event
UiIdle ==
    /\ sceneReady = FALSE
    /\ timers = <<>>
    /\ updateTimeout = 0
    /\ appRib = 0
    /\ meshes = <<>>
    /\ toast = [message |-> <<>>, isError |-> FALSE]
    /\ sinceLastEvent = DebounceDelay
    /\ callsSinceEvent = 0
    /\ burstLen = 0
    /\ builtInBurst = FALSE
    /\ intermediateBuilt = FALSE
    /\ rebuildsOfRequest = 0
    /\ exported = Null
    /\ isDrawing = FALSE
    /\ drawingHistory = <<>>

\* the page as it is loaded: an empty statistics panel, no warning shown
StatIdle ==
    /\ statistics = Null
    /\ warnings = [edgeThickness |-> FALSE, edgeDepth |-> FALSE]
    /\ warningsBefore = Null

FnIdle ==
    /\ pc = "ready"
    /\ fnArgs = Null
    /\ fnResult = 0

\* the fixed-point fractions i/n, n <= MaxGridDen
GridFractions == {Div(i * Scale, n) : i \in 0..MaxGridDen, n \in 1..MaxGridDen} \cap 0..Scale

----------------------------------------------------------------------------
(* SpecShape: getShapeModifier applied to every shape tag and grid point    *)

InitShape ==
    /\ pc = "ready"
    /\ fnArgs \in [t : GridFractions, s : GridFractions,
                   shape : ShapeTags \cup {"unknown"}]
    /\ fnResult = 0
    /\ MeshIdle
    /\ UiIdle
    /\ StatIdle

CallGetShapeModifier ==
    /\ pc = "ready"
    /\ pc' = "done"
    /\ fnResult' = getShapeModifier(fnArgs.t, fnArgs.s, fnArgs.shape)
    /\ UNCHANGED <<pageVars, fnArgs, meshVars, uiVars, histVars>>

NextShape == CallGetShapeModifier

SpecShape == InitShape /\ [][NextShape]_vars

----------------------------------------------------------------------------
(* SpecEdge: applyEdgeAngle applied to every profile, thickness and blend   *)

\* thicknesses a vertex can have, in mm: from the smallest edge thickness (0.1)
\* to the largest base thickness (12)
ThicknessSamples == {Dec(1, 10), Dec(2, 10), Dec(1, 2), Scale, 2 * Scale, 3 * Scale,
                     4 * Scale, 6 * Scale, 8 * Scale, 12 * Scale}

\* custom angles in degrees
AngleSamples == {0, 15, 30, 45, 60, 75, 85}

InitEdge ==
    /\ pc = "ready"
    /\ fnArgs \in [angleType : ProfileTypes, customAngle : AngleSamples,
                   thickness : ThicknessSamples, angleEffect : GridFractions]
    /\ fnResult = 0
    /\ MeshIdle
    /\ UiIdle
    /\ StatIdle

CallApplyEdgeAngle ==
    /\ pc = "ready"
    /\ pc' = "done"
    /\ fnResult' = applyEdgeAngle(fnArgs.angleType, fnArgs.customAngle,
                                  fnArgs.thickness, fnArgs.angleEffect)
    /\ UNCHANGED <<pageVars, fnArgs, meshVars, uiVars, histVars>>

NextEdge == CallApplyEdgeAngle

SpecEdge == InitEdge /\ [][NextEdge]_vars

\* C7: for every profile type, every thickness a vertex can have and every blendFactor
\* in [0,1], the top offset returned by applyEdgeAngle is at least 0.1 and at most
\* thickness/2.
C7_EdgeOffsetRange ==
    pc = "done" =>
        /\ fnResult >= Dec(1, 10)
        /\ fnResult <= Div(fnArgs.thickness, 2)

\* C18: with the sharp profile and a blend factor of 1 applyEdgeAngle returns
\* max(0.1, thickness/2 x 0.05): thickness/40 (to the last digit kept) from a
\* thickness of 4 mm on, where that is at least 0.1, and the floor of 0.1 below
C18_SharpFullBlend ==
    (pc = "done" /\ fnArgs.angleType = "sharp" /\ fnArgs.angleEffect = Scale) =>
        IF fnArgs.thickness >= 4 * Scale
        THEN /\ 40 * fnResult <= fnArgs.thickness
             /\ 40 * (fnResult + 1) > fnArgs.thickness
             /\ fnResult >= Dec(1, 10)
        ELSE fnResult = Dec(1, 10)

\* the sharp profile fully blended on a 12 mm and on a 2 mm thickness
C18_Witness ==
    /\ pc = "done"
    /\ fnArgs.angleType = "sharp"
    /\ fnArgs.angleEffect = Scale
    /\ \/ fnArgs.thickness = 12 * Scale /\ fnResult = Dec(3, 10)
       \/ fnArgs.thickness = 2 * Scale /\ fnResult = Dec(1, 10)

----------------------------------------------------------------------------
(* SpecVertex: calculateVertexPosition at one grid point, called as the     *)
(* vertex loop of createRibGeometry calls it, with the bow offset of its row *)

\* curveOffset of the row at t, as the vertex loop computes it
bowOffset(params, t) ==
    Mul(Mul(SinPi(t), params.thickness), Div(params.longitudinalCurve * Scale, 100)) * 3

VertexControlSamples ==
    {[DefaultControls EXCEPT !.shape = sh, !.angleType = at, !.applyAllEdges = all,
                             !.longitudinalCurve = lc, !.edgeThickness = et * Scale] :
        sh \in {"rectangular", "oval", "kidney"}, at \in {"straight", "sharp", "rounded"},
        all \in BOOLEAN, lc \in {0, 30}, et \in {3, 6}}

InitVertex ==
    /\ pc = "ready"
    /\ \E s \in GridFractions, t \in GridFractions, c \in VertexControlSamples :
          fnArgs = [s |-> s, t |-> t, params |-> getGeometryParameters(c),
                    curveOffset |-> bowOffset(getGeometryParameters(c), t)]
    /\ fnResult = 0
    /\ MeshIdle
    /\ UiIdle
    /\ StatIdle

CallCalculateVertexPosition ==
    /\ pc = "ready"
    /\ pc' = "done"
    /\ fnResult' = calculateVertexPosition(Mul(fnArgs.t - Half, fnArgs.params.length),
                                           fnArgs.s, fnArgs.t, fnArgs.params, NoCurve,
                                           MaxGridDen, fnArgs.curveOffset)
    /\ UNCHANGED <<pageVars, fnArgs, meshVars, uiVars, histVars>>

NextVertex == CallCalculateVertexPosition

SpecVertex == InitVertex /\ [][NextVertex]_vars

\* the width of the rib at the point of the call
ActualWidthAt(a) ==
    Mul(a.params.width, Abs(getShapeModifier(a.t, a.s, a.params.shape)))

\* the four edge distances of the point of the call: top, bottom, left, right
EdgeDistances(a) ==
    <<Mul(ActualWidthAt(a), Scale - a.s), Mul(ActualWidthAt(a), a.s),
      Mul(a.params.length, a.t), Mul(a.params.length, Scale - a.t)>>

MinOf(d) == Min(Min(d[1], d[2]), Min(d[3], d[4]))

\* angle application is enabled at a point with the edge distances d: the flag, the
\* oval or custom shape, the top edge nearest, or within edgeDepth of left or right
AngleEnabled(params, d) ==
    \/ params.applyAllEdges
    \/ params.shape \in {"oval", "custom"}
    \/ d[1] = MinOf(d)
    \/ d[3] <= params.edgeDepth
    \/ d[4] <= params.edgeDepth

\* currentThickness / 2 + bow offset under the uniform thickness mode, at a point
\* at distance m from its nearest edge, m <= edgeDepth
UnmodifiedTopZ(a, m) ==
    Div(Mul(a.params.edgeThickness, Scale - Quot(m, a.params.edgeDepth))
          + Mul(a.params.thickness, Quot(m, a.params.edgeDepth)), 2)
      + a.curveOffset

\* C20: within edgeDepth of the nearest edge the profile is applied only where angle
\* application is enabled; where it is not (the bottom edge nearest, the flag off,
\* neither oval nor custom, farther than edgeDepth from left and right) topZ stays
\* currentThickness / 2 + bow offset
C20_ProfileOnlyWhereEnabled ==
    (/\ pc = "done"
     /\ MinOf(EdgeDistances(fnArgs)) <= fnArgs.params.edgeDepth
     /\ ~AngleEnabled(fnArgs.params, EdgeDistances(fnArgs))) =>
        fnResult.topZ = UnmodifiedTopZ(fnArgs, MinOf(EdgeDistances(fnArgs)))

----------------------------------------------------------------------------
(* SpecModes: calculateVertexPosition under the three thickness modes and   *)
(* the per-edge profiles, on ribs where each pair of edges can tie          *)

\* length and width of a rib whose corners tie top or bottom with left or right,
\* of one whose centre line ties top with bottom, and of one whose centre ties
\* left with right
ModeSizes == {<<100, 60>>, <<100, 40>>, <<40, 60>>}

\* every edge with a thickness and a profile of its own
ModeControlSamples ==
    {[DefaultControls EXCEPT !.length = sz[1] * Scale, !.width = sz[2] * Scale,
                             !.edgeDepth = dp * Scale, !.shape = sh,
                             !.longitudinalCurve = lc,
                             !.edgeThicknessApply = mode, !.angleType = at,
                             !.edgeTop = 1 * Scale, !.edgeBottom = 2 * Scale,
                             !.edgeLeft = 4 * Scale, !.edgeRight = 8 * Scale,
                             !.angleTop = "sharp", !.angleBottom = "rounded",
                             !.angleLeft = "bevel", !.angleRight = "straight"] :
        sz \in ModeSizes, dp \in {10, 30}, sh \in {"rectangular", "oval"},
        lc \in {0, 30}, mode \in {"all", "asymmetric", "shaping"},
        at \in {"asymmetric"} \cup ProfileTypes}

InitModes ==
    /\ pc = "ready"
    /\ \E s \in GridFractions, t \in GridFractions, c \in ModeControlSamples :
          fnArgs = [s |-> s, t |-> t, params |-> getGeometryParameters(c),
                    curveOffset |-> bowOffset(getGeometryParameters(c), t)]
    /\ fnResult = 0
    /\ MeshIdle
    /\ UiIdle
    /\ StatIdle

NextModes == CallCalculateVertexPosition

SpecModes == InitModes /\ [][NextModes]_vars

\* the edges in the order of the if-chains: 1 top, 2 bottom, 3 left, 4 right
NearestEdges(d) == {e \in 1..4 : d[e] = MinOf(d)}

\* the first edge of that order among the nearest ones
FirstNearest(d) == CHOOSE e \in NearestEdges(d) : \A f \in NearestEdges(d) : e <= f

\* the thickness at distance m of an edge whose target thickness is target
ThicknessToward(params, target, m) ==
    Mul(target, Scale - Quot(m, params.edgeDepth))
        + Mul(params.thickness, Quot(m, params.edgeDepth))

\* topZ at distance m of an edge with the given profile, the thickness there
\* being current
ProfiledTopZ(a, profile, current, m) ==
    Mul(applyEdgeAngle(profile, a.params.customAngle, current,
                       Scale - Quot(m, a.params.edgeDepth)) + a.curveOffset,
        Scale - Quot(m, a.params.edgeDepth))
      + Mul(Div(current, 2) + a.curveOffset, Quot(m, a.params.edgeDepth))

\* the per-edge thickness and profile of edge e
EdgeThicknessOf(params, e) ==
    <<params.edgeTop, params.edgeBottom, params.edgeLeft, params.edgeRight>>[e]
EdgeProfileOf(params, e) ==
    <<params.angleTop, params.angleBottom, params.angleLeft, params.angleRight>>[e]

\* the point of the call lies within edgeDepth of two or more nearest edges
TiedWithinDepth(a) ==
    /\ Cardinality(NearestEdges(EdgeDistances(a))) >= 2
    /\ MinOf(EdgeDistances(a)) <= a.params.edgeDepth

\* C21: where several edge distances equal the minimum, the first of top, bottom,
\* left, right among them supplies the per-edge thickness (read off bottomZ) and,
\* with that thickness, the per-edge profile (read off topZ)
C21_TiePriority ==
    (/\ pc = "done"
     /\ TiedWithinDepth(fnArgs)
     /\ fnArgs.params.edgeThicknessApply = "asymmetric") =>
        /\ fnResult.bottomZ =
             (-Div(ThicknessToward(fnArgs.params,
                       EdgeThicknessOf(fnArgs.params, FirstNearest(EdgeDistances(fnArgs))),
                       MinOf(EdgeDistances(fnArgs))), 2)) - fnArgs.curveOffset
        /\ fnArgs.params.angleType = "asymmetric" =>
             fnResult.topZ =
                ProfiledTopZ(fnArgs,
                    EdgeProfileOf(fnArgs.params, FirstNearest(EdgeDistances(fnArgs))),
                    ThicknessToward(fnArgs.params,
                        EdgeThicknessOf(fnArgs.params, FirstNearest(EdgeDistances(fnArgs))),
                        MinOf(EdgeDistances(fnArgs))),
                    MinOf(EdgeDistances(fnArgs)))

\* the bottom left corner of a rib in asymmetric mode: bottom and left tie, the
\* bottom edge gives its 2 mm and its rounded profile
C21_Witness ==
    /\ pc = "done"
    /\ fnArgs.params.edgeThicknessApply = "asymmetric"
    /\ fnArgs.params.angleType = "asymmetric"
    /\ NearestEdges(EdgeDistances(fnArgs)) = {2, 3}
    /\ fnArgs.curveOffset = 0
    /\ fnResult.bottomZ = -Scale
    /\ fnResult.topZ = Dec(1, 10)

\* the thickness the vertex of the call has if the interpolation toward target is
\* applied there, read off bottomZ
HasThicknessToward(a, r, target) ==
    r.bottomZ = (-Div(ThicknessToward(a.params, target, MinOf(EdgeDistances(a))), 2))
                    - a.curveOffset

\* C22: within edgeDepth the shaping mode interpolates the thickness only where the
\* top edge is among the nearest and leaves the base thickness elsewhere; the
\* uniform and the asymmetric mode interpolate at every vertex, toward the edge
\* thickness and toward the thickness of the nearest edge, which is reached at
\* distance 0
C22_ThicknessModes ==
    (pc = "done" /\ MinOf(EdgeDistances(fnArgs)) <= fnArgs.params.edgeDepth) =>
        /\ (fnArgs.params.edgeThicknessApply = "shaping"
              /\ 1 \notin NearestEdges(EdgeDistances(fnArgs))) =>
                fnResult.bottomZ = (-Div(fnArgs.params.thickness, 2)) - fnArgs.curveOffset
        /\ (fnArgs.params.edgeThicknessApply = "shaping"
              /\ 1 \in NearestEdges(EdgeDistances(fnArgs))) =>
                HasThicknessToward(fnArgs, fnResult, fnArgs.params.edgeThickness)
        /\ fnArgs.params.edgeThicknessApply = "all" =>
                HasThicknessToward(fnArgs, fnResult, fnArgs.params.edgeThickness)
        /\ fnArgs.params.edgeThicknessApply = "asymmetric" =>
                HasThicknessToward(fnArgs, fnResult,
                    EdgeThicknessOf(fnArgs.params, FirstNearest(EdgeDistances(fnArgs))))
        /\ (fnArgs.params.edgeThicknessApply = "all"
              /\ MinOf(EdgeDistances(fnArgs)) = 0) =>
                fnResult.bottomZ = (-Div(fnArgs.params.edgeThickness, 2)) - fnArgs.curveOffset

\* a vertex 10 mm from the bottom edge of a flat rib in shaping mode, edgeDepth
\* 30 mm: the thickness stays 6 mm although the edge thickness is 3 mm
C22_Witness ==
    /\ pc = "done"
    /\ fnArgs.params.edgeThicknessApply = "shaping"
    /\ fnArgs.params.edgeDepth = 30 * Scale
    /\ NearestEdges(EdgeDistances(fnArgs)) = {2}
    /\ MinOf(EdgeDistances(fnArgs)) = 10 * Scale
    /\ fnArgs.curveOffset = 0
    /\ fnResult.bottomZ = -3 * Scale

\* the thickness at the vertex of the call: the base thickness beyond edgeDepth and,
\* in shaping mode, away from the top edge; otherwise interpolated toward the
\* thickness of the mode
ThicknessAt(a) ==
    CASE MinOf(EdgeDistances(a)) > a.params.edgeDepth -> a.params.thickness
      [] /\ MinOf(EdgeDistances(a)) <= a.params.edgeDepth
         /\ a.params.edgeThicknessApply = "shaping"
         /\ 1 \notin NearestEdges(EdgeDistances(a)) -> a.params.thickness
      [] /\ MinOf(EdgeDistances(a)) <= a.params.edgeDepth
         /\ a.params.edgeThicknessApply = "asymmetric" ->
            ThicknessToward(a.params,
                            EdgeThicknessOf(a.params, FirstNearest(EdgeDistances(a))),
                            MinOf(EdgeDistances(a)))
      [] OTHER ->
            ThicknessToward(a.params, a.params.edgeThickness, MinOf(EdgeDistances(a)))

\* C23: at edgeDepth or farther from the nearest edge the vertex has the centre
\* values topZ = thickness / 2 + bow offset = -bottomZ under every thickness mode
\* and profile, also at exactly edgeDepth; at every vertex bottomZ is minus half
\* the thickness there minus the bow offset, whatever the profile
C23_CentreAndBottom ==
    pc = "done" =>
        /\ MinOf(EdgeDistances(fnArgs)) >= fnArgs.params.edgeDepth =>
              /\ fnResult.topZ = Div(fnArgs.params.thickness, 2) + fnArgs.curveOffset
              /\ fnResult.bottomZ = -(Div(fnArgs.params.thickness, 2) + fnArgs.curveOffset)
              /\ fnResult.topZ = -fnResult.bottomZ
        /\ fnResult.bottomZ = (-Div(ThicknessAt(fnArgs), 2)) - fnArgs.curveOffset

\* a vertex at exactly edgeDepth from its nearest edge on a bowed rib with the
\* sharp profile and an edge thickness other than the base thickness
C23_Witness ==
    /\ pc = "done"
    /\ MinOf(EdgeDistances(fnArgs)) = fnArgs.params.edgeDepth
    /\ fnArgs.params.angleType = "sharp"
    /\ fnArgs.params.edgeThicknessApply = "all"
    /\ fnArgs.params.edgeThickness # fnArgs.params.thickness
    /\ fnArgs.curveOffset > 0
    /\ fnResult.topZ = 3 * Scale + fnArgs.curveOffset
    /\ fnResult.bottomZ = -fnResult.topZ

----------------------------------------------------------------------------
(* SpecFlag: calculateVertexPosition at one grid point, first with the       *)
(* apply-to-all-edges box unchecked, then with the box checked               *)

\* the smoothed curves a custom shape is generated from: two raw points, which
\* smoothCurvePoints returns as they are, and a smoothed stroke
SmoothedCurveSamples ==
    {smoothCurvePoints(<<[x |-> 0, y |-> Half], [x |-> Scale, y |-> Dec(1, 4)]>>, 50).ret,
     smoothCurvePoints(<<[x |-> 0, y |-> Half], [x |-> Dec(1, 4), y |-> 0],
                         [x |-> Half, y |-> Scale], [x |-> Scale, y |-> Scale]>>, 50).ret}

FlagControlSamples ==
    {[DefaultControls EXCEPT !.length = sz[1] * Scale, !.width = sz[2] * Scale,
                             !.edgeDepth = dp * Scale, !.shape = sh,
                             !.longitudinalCurve = lc, !.angleType = at,
                             !.angleTop = "sharp", !.angleBottom = "rounded",
                             !.angleLeft = "bevel", !.angleRight = "custom-angle"] :
        sz \in ModeSizes, dp \in {10, 30},
        sh \in {"rectangular", "kidney", "teardrop", "custom"},
        lc \in {0, 30}, at \in {"sharp", "asymmetric"}}

InitFlag ==
    /\ pc = "ready"
    /\ \E s \in GridFractions, t \in GridFractions, c \in FlagControlSamples :
       \E curve \in (IF c.shape = "custom" THEN SmoothedCurveSamples ELSE {NoCurve}) :
          fnArgs = [s |-> s, t |-> t, params |-> getGeometryParameters(c),
                    curveOffset |-> bowOffset(getGeometryParameters(c), t),
                    smoothedCurve |-> curve]
    /\ fnResult = <<>>
    /\ MeshIdle
    /\ UiIdle
    /\ StatIdle

\* the vertex with the box as it is
CallWithFlagOff ==
    /\ pc = "ready"
    /\ pc' = "unchecked"
    /\ fnResult' = <<calculateVertexPosition(Mul(fnArgs.t - Half, fnArgs.params.length),
                                             fnArgs.s, fnArgs.t, fnArgs.params,
                                             fnArgs.smoothedCurve, MaxGridDen,
                                             fnArgs.curveOffset)>>
    /\ UNCHANGED <<pageVars, fnArgs, meshVars, uiVars, histVars>>

\* the box is checked and the same vertex is computed again
CallWithFlagOn ==
    /\ pc = "unchecked"
    /\ pc' = "done"
    /\ fnArgs' = [fnArgs EXCEPT !.params.applyAllEdges = TRUE]
    /\ fnResult' = Append(fnResult,
                          calculateVertexPosition(
                              Mul(fnArgs.t - Half, fnArgs.params.length),
                              fnArgs.s, fnArgs.t, fnArgs'.params,
                              fnArgs.smoothedCurve, MaxGridDen, fnArgs.curveOffset))
    /\ UNCHANGED <<pageVars, meshVars, uiVars, histVars>>

NextFlag ==
    \/ CallWithFlagOff
    \/ CallWithFlagOn

SpecFlag == InitFlag /\ [][NextFlag]_vars

\* C26: the vertex computed with applyAllEdges true is the vertex computed with
\* applyAllEdges false, for every parameter record, custom curve and grid point
C26_FlagHasNoEffect ==
    pc = "done" => fnResult[1] = fnResult[2]

\* a vertex of a flat rectangular rib nearest to the bottom edge, within edgeDepth
\* of it and farther than edgeDepth from the left and the right edge: the sharp
\* profile lowered topZ with the box unchecked as with the box checked
C26_Witness ==
    /\ pc = "done"
    /\ fnArgs.params.applyAllEdges
    /\ fnArgs.params.shape = "rectangular"
    /\ fnArgs.params.angleType = "sharp"
    /\ fnArgs.curveOffset = 0
    /\ NearestEdges(EdgeDistances(fnArgs)) = {2}
    /\ MinOf(EdgeDistances(fnArgs)) < fnArgs.params.edgeDepth
    /\ EdgeDistances(fnArgs)[3] > fnArgs.params.edgeDepth
    /\ EdgeDistances(fnArgs)[4] > fnArgs.params.edgeDepth
    /\ fnResult[1].topZ < -fnResult[1].bottomZ
    /\ fnResult[2].topZ = fnResult[1].topZ

----------------------------------------------------------------------------
(* SpecRange: calculateVertexPosition with the controls at the ends of their  *)
(* ranges                                                                    *)

\* a profile for every edge with the custom angle it is tried with: the fixed
\* profiles, the custom angle at 0 and at 88 degrees, and the per-edge profiles
RangeProfiles ==
    ({"straight", "sharp", "bevel", "miter", "rounded"} \X {45})
        \cup ({"custom-angle"} \X {0, 88}) \cup {<<"asymmetric", 88>>}

\* thickness 3 and 12 mm, edge thickness 0.1 and 12 mm, edge depth 3 and 30 mm, flat
\* and bowed
RangeControlSamples ==
    {[DefaultControls EXCEPT !.thickness = th * Scale, !.edgeThickness = et,
                             !.edgeDepth = dp * Scale, !.longitudinalCurve = lc,
                             !.shape = sh, !.edgeThicknessApply = mode,
                             !.angleType = pr[1], !.edgeAngle = pr[2],
                             !.edgeTop = Dec(1, 10), !.edgeBottom = 12 * Scale,
                             !.edgeLeft = Dec(1, 10), !.edgeRight = 12 * Scale,
                             !.angleTop = "custom-angle", !.angleBottom = "sharp",
                             !.angleLeft = "rounded", !.angleRight = "miter"] :
        th \in {3, 12}, et \in {Dec(1, 10), 12 * Scale}, dp \in {3, 30}, lc \in {0, 50},
        sh \in {"rectangular", "oval"}, mode \in {"all", "asymmetric"},
        pr \in RangeProfiles}

InitRange ==
    /\ pc = "ready"
    /\ \E s \in GridFractions, t \in GridFractions, c \in RangeControlSamples :
          fnArgs = [s |-> s, t |-> t, params |-> getGeometryParameters(c),
                    curveOffset |-> bowOffset(getGeometryParameters(c), t)]
    /\ fnResult = 0
    /\ MeshIdle
    /\ UiIdle
    /\ StatIdle

NextRange == CallCalculateVertexPosition

SpecRange == InitRange /\ [][NextRange]_vars

\* C28: with the thickness, the edge thicknesses, the edge depth, the bow and the
\* custom angle inside their ranges, topZ is greater than bottomZ at every grid
\* vertex, for every shape and profile
C28_TopAboveBottom ==
    pc = "done" => fnResult.topZ > fnResult.bottomZ

\* a vertex on the edge of a flat rib 12 mm thick with an edge thickness of 0.1 mm
\* and a custom angle of 88 degrees: the floor keeps topZ at 0.1 mm over a bottomZ
\* of -0.05 mm
C28_Witness ==
    /\ pc = "done"
    /\ fnArgs.params.thickness = 12 * Scale
    /\ fnArgs.params.edgeThicknessApply = "all"
    /\ fnArgs.params.edgeThickness = Dec(1, 10)
    /\ fnArgs.params.angleType = "custom-angle"
    /\ fnArgs.params.customAngle = 88
    /\ MinOf(EdgeDistances(fnArgs)) = 0
    /\ fnArgs.curveOffset = 0
    /\ fnResult.topZ = Dec(1, 10)
    /\ fnResult.bottomZ = -Dec(1, 20)

----------------------------------------------------------------------------
(* SpecCurve: smoothCurvePoints applied to drawn point sequences            *)

MaxCurvePoints == 3

\* drawn points: four distinct x, a repeated x, and y at the centre and at both
\* borders of the canvas
CurvePointSamples ==
    {[x |-> 0, y |-> Half], [x |-> Dec(1, 4), y |-> 0], [x |-> Half, y |-> Scale],
     [x |-> Half, y |-> 0], [x |-> Dec(3, 4), y |-> Half], [x |-> Scale, y |-> Scale]}
SmoothingSamples == {0, 50, 100}

SeqsUpTo(S, n) == UNION {[1..k -> S] : k \in 0..n}

InitCurve ==
    /\ pc = "ready"
    /\ fnArgs \in [points : SeqsUpTo(CurvePointSamples, MaxCurvePoints),
                   smoothingFactor : SmoothingSamples]
    /\ fnResult = <<>>
    /\ controls = DefaultControls
    /\ customCurvePoints = <<>>
    /\ segments = 1
    /\ widthSegments = 2
    /\ geometry = Null
    /\ UiIdle
    /\ StatIdle

CallSmoothCurvePoints ==
    /\ pc = "ready"
    /\ pc' = "done"
    /\ LET r == smoothCurvePoints(fnArgs.points, fnArgs.smoothingFactor)
       IN  /\ fnResult' = r.ret
           /\ fnArgs' = [fnArgs EXCEPT !.points = r.points]
    /\ UNCHANGED <<pageVars, meshVars, uiVars, histVars>>

NextCurve == CallSmoothCurvePoints

SpecCurve == InitCurve /\ [][NextCurve]_vars

DistinctXs(points) ==
    \A i, j \in 1..Len(points) : i # j => points[i].x # points[j].x

\* C9: for 3 or more input points in any order and any smoothing strength,
\* smoothCurvePoints returns exactly 100 points whose x values are i/99 (first 0,
\* last 1, non-decreasing) and whose y values lie in [0,1]; with distinct x values
\* the result is the one obtained from the points given in ascending x order.
C9_SmoothedCurveShape ==
    (pc = "done" /\ Len(fnArgs.points) >= 3) =>
        /\ Len(fnResult) = 100
        /\ \A k \in 1..Len(fnResult) :
              /\ fnResult[k].x = Div((k - 1) * Scale, 99)
              /\ fnResult[k].y >= 0
              /\ fnResult[k].y <= Scale
              /\ k > 1 => fnResult[k - 1].x <= fnResult[k].x
        /\ fnResult[1].x = 0
        /\ fnResult[Len(fnResult)].x = Scale
        /\ DistinctXs(fnArgs.points) =>
              fnResult = smoothCurvePoints(SortByX(fnArgs.points),
                                           fnArgs.smoothingFactor).ret

\* three points drawn right to left have been smoothed
C9_Witness ==
    /\ pc = "done"
    /\ Len(fnArgs.points) >= 3
    /\ DistinctXs(fnArgs.points)
    /\ fnArgs.points[1].x > fnArgs.points[2].x
    /\ fnArgs.points[2].x > fnArgs.points[3].x
    /\ fnArgs.points[1].y # fnArgs.points[3].y
    /\ Len(fnResult) = 100

\* C10: smoothCurvePoints never modifies its argument, and with fewer than 3 points
\* it returns the input sequence itself, unsorted and not resampled.
C10_ArgumentUntouched ==
    [][(pc = "ready" /\ pc' = "done") =>
          /\ fnArgs'.points = fnArgs.points
          /\ Len(fnArgs.points) < 3 => fnResult' = fnArgs.points]_vars

\* two points given right to left were returned as they are, and three points given
\* right to left were smoothed
C10_Witness ==
    /\ pc = "done"
    /\ \/ /\ Len(fnArgs.points) = 2
          /\ fnArgs.points[1].x > fnArgs.points[2].x
          /\ fnResult = fnArgs.points
       \/ /\ Len(fnArgs.points) = 3
          /\ fnArgs.points[1].x > fnArgs.points[2].x
          /\ Len(fnResult) = 100

\* the 0-based index of the control point that starts the segment of output
\* sample i (0-based) over n sorted control points, and of the one that ends it
SegmentStart(i, n) == (i * (n - 1)) \div (resolution - 1)
SegmentEnd(i, n) == Min(SegmentStart(i, n) + 1, n - 1)

\* the call smoothed 3 or more points with smoothing strength 0
SmoothedWithoutTension ==
    /\ pc = "done"
    /\ Len(fnArgs.points) >= 3
    /\ fnArgs.smoothingFactor = 0

\* C24 as stated: with smoothing strength 0 and 3 or more points every output
\* sample has the midpoint (p1.y + p2.y) / 2 of the control points of its segment
C24_MidpointAtZero ==
    SmoothedWithoutTension =>
        \A k \in 1..Len(fnResult) :
            fnResult[k].y =
                Max(0, Min(Scale,
                    Div(SortByX(fnArgs.points)[SegmentStart(k - 1, Len(fnArgs.points)) + 1].y
                        + SortByX(fnArgs.points)[SegmentEnd(k - 1, Len(fnArgs.points)) + 1].y,
                        2)))

\* C24: with smoothing strength 0 and 3 or more points every output sample has the
\* y of the control point p1 that starts its segment: the curve is a step function
\* over the sorted control points, neither their midpoints nor a linear
\* interpolation
C24_LeftPointAtZero ==
    SmoothedWithoutTension =>
        /\ Len(fnResult) = resolution
        /\ \A k \in 1..Len(fnResult) :
              fnResult[k].y =
                 SortByX(fnArgs.points)[SegmentStart(k - 1, Len(fnArgs.points)) + 1].y

\* three points with different y were smoothed with strength 0: the samples of the
\* first segment have the y of the first point, not the midpoint
C24_Witness ==
    /\ SmoothedWithoutTension
    /\ DistinctXs(fnArgs.points)
    /\ SortByX(fnArgs.points)[1].y = Half
    /\ SortByX(fnArgs.points)[2].y = 0
    /\ fnResult[1].y = Half
    /\ fnResult[25].y = Half
    /\ fnResult[resolution].y = SortByX(fnArgs.points)[3].y

----------------------------------------------------------------------------
(* SpecMesh: createRibGeometry applied to parameter records, drawn curves    *)
(* and grid sizes                                                            *)

MaxSegments == 3
MaxWidthSegments == 3

\* a grid fine enough across the width to resolve the rim of a custom shape
FineWidthSegments == 8

GridSizes ==
    ((1..MaxSegments) \X (1..MaxWidthSegments)) \cup {<<2, FineWidthSegments>>}

ControlSamples ==
    {[DefaultControls EXCEPT !.shape = sh, !.angleType = at,
                             !.edgeThicknessApply = ea, !.longitudinalCurve = lc,
                             !.edgeTop = Scale, !.angleTop = "sharp",
                             !.edgeLeft = Dec(1, 10), !.angleLeft = "rounded"] :
        sh \in ShapeTags, at \in {"straight", "sharp", "rounded", "asymmetric"},
        ea \in {"all", "asymmetric"}, lc \in {0, 30}}

\* nothing drawn, two raw points, and a stroke that touches both borders
CurveSamples ==
    {<<>>,
     <<[x |-> 0, y |-> Half], [x |-> Scale, y |-> Dec(1, 4)]>>,
     <<[x |-> 0, y |-> Half], [x |-> Dec(1, 4), y |-> 0], [x |-> Half, y |-> Scale],
       [x |-> Scale, y |-> Scale]>>}

InitMesh ==
    /\ FnIdle
    /\ UiIdle
    /\ StatIdle
    /\ controls \in ControlSamples
    /\ customCurvePoints \in
          (IF controls.shape = "custom" THEN CurveSamples ELSE {<<>>})
    /\ \E size \in GridSizes : segments = size[1] /\ widthSegments = size[2]
    /\ geometry = Null

CallCreateRibGeometry ==
    /\ geometry = Null
    /\ \E g \in {createRibGeometry(getGeometryParameters(controls), customCurvePoints,
                                    controls.smoothingAmount, segments, widthSegments)} :
          /\ geometry' = [vertices |-> g.vertices, indices |-> g.indices]
          /\ customCurvePoints' = g.curvePoints
          /\ statistics' = g.statistics
          /\ warnings' = g.warnings
          /\ warningsBefore' = warnings
    /\ UNCHANGED <<exported, drawVars, fnVars, controls, segments, widthSegments, uiVars, histVars>>

NextMesh == CallCreateRibGeometry

SpecMesh == InitMesh /\ [][NextMesh]_vars

\* the triangles of an index buffer, as triples of 0-based vertex indices
Triangles(indices) ==
    [k \in 1..(Len(indices) \div 3) |->
        <<indices[3 * k - 2], indices[3 * k - 1], indices[3 * k]>>]

\* the three directed edges of a triangle
DirectedEdges(tri) == {<<tri[1], tri[2]>>, <<tri[2], tri[3]>>, <<tri[3], tri[1]>>}

\* the number of triangles that traverse the directed edge e
EdgeUse(tris, e) == Cardinality({k \in DOMAIN tris : e \in DirectedEdges(tris[k])})

AllDirectedEdges(tris) == UNION {DirectedEdges(tris[k]) : k \in DOMAIN tris}

\* C1: every undirected edge that occurs in some triangle of the index buffer built
\* by createRibGeometry occurs in exactly two triangles.
C1_Manifold ==
    geometry # Null =>
        LET tris == Triangles(geometry.indices)
        IN  \A e \in AllDirectedEdges(tris) :
                EdgeUse(tris, e) + EdgeUse(tris, <<e[2], e[1]>>) = 2

\* a mesh with interior cells, all four walls and four corners has been built
C1_Witness ==
    /\ geometry # Null
    /\ segments >= 2
    /\ widthSegments >= 2
    /\ Len(geometry.indices)
         = 3 * (4 * segments * widthSegments + 4 * segments + 4 * widthSegments)

\* coordinate c of 0-based vertex v, in units of 10/Scale mm (products of two
\* coordinate differences stay in range)
Coord(g, v, c) == Div(g.vertices[v + 1][c], 10)

\* the normal (b - a) x (c - a) of a triangle
Normal(g, tri) ==
    LET ux == Coord(g, tri[2], 1) - Coord(g, tri[1], 1)
        uy == Coord(g, tri[2], 2) - Coord(g, tri[1], 2)
        uz == Coord(g, tri[2], 3) - Coord(g, tri[1], 3)
        wx == Coord(g, tri[3], 1) - Coord(g, tri[1], 1)
        wy == Coord(g, tri[3], 2) - Coord(g, tri[1], 2)
        wz == Coord(g, tri[3], 3) - Coord(g, tri[1], 3)
    IN  [x |-> uy * wz - uz * wy, y |-> uz * wx - ux * wz, z |-> ux * wy - uy * wx]

IsTopVertex(v) == v % 2 = 0
GridI(v, wSegments) == (v \div 2) \div (wSegments + 1)
GridJ(v, wSegments) == (v \div 2) % (wSegments + 1)

IsTopCap(tri) == \A k \in 1..3 : IsTopVertex(tri[k])
IsBottomCap(tri) == \A k \in 1..3 : ~IsTopVertex(tri[k])
IsWall(tri) == ~IsTopCap(tri) /\ ~IsBottomCap(tri)

\* a wall triangle faces away from the solid: its normal points to the side of the
\* boundary it lies on
FacesOutward(g, tri, nSegments, wSegments) ==
    /\ (\A k \in 1..3 : GridI(tri[k], wSegments) = 0) => Normal(g, tri).x < 0
    /\ (\A k \in 1..3 : GridI(tri[k], wSegments) = nSegments) => Normal(g, tri).x > 0
    /\ (\A k \in 1..3 : GridJ(tri[k], wSegments) = 0) => Normal(g, tri).y < 0
    /\ (\A k \in 1..3 : GridJ(tri[k], wSegments) = wSegments) => Normal(g, tri).y > 0

ConsistentWinding(tris) ==
    \A e \in AllDirectedEdges(tris) :
        EdgeUse(tris, e) = 1 /\ EdgeUse(tris, <<e[2], e[1]>>) = 1

\* C2: the winding of the mesh built by createRibGeometry is consistent and outward:
\* every shared edge is traversed in opposite directions by its two triangles, every
\* top-cap triangle is counter-clockwise seen from +Z, every bottom-cap triangle is
\* clockwise, and every wall triangle faces away from the solid.
C2_OutwardWinding ==
    geometry # Null =>
        LET tris == Triangles(geometry.indices)
        IN  /\ ConsistentWinding(tris)
            /\ \A k \in DOMAIN tris :
                  /\ IsTopCap(tris[k]) => Normal(geometry, tris[k]).z > 0
                  /\ IsBottomCap(tris[k]) => Normal(geometry, tris[k]).z < 0
                  /\ IsWall(tris[k]) =>
                        FacesOutward(geometry, tris[k], segments, widthSegments)

\* the resolution createRibGeometry is written with
SourceSegments == 60
SourceWidthSegments == 40

\* the number of vertices and of triangles of a grid of n x w cells
VertexCount(n, w) == 2 * (n + 1) * (w + 1)
TriangleCount(n, w) == 4 * n * w + 4 * n + 4 * w

\* the 0-based index of the top vertex of grid point (i, j)
TopIndex(i, j, w) == 2 * (i * (w + 1) + j)

\* grid point (i, j) owns the vertices TopIndex and TopIndex + 1: both lie at the x of
\* row i and share their y
OwnsVertexPair(g, i, j, n, w, length) ==
    /\ g.vertices[TopIndex(i, j, w) + 1][1] = Mul(Div(i * Scale, n) - Half, length)
    /\ g.vertices[TopIndex(i, j, w) + 2][1] = g.vertices[TopIndex(i, j, w) + 1][1]
    /\ g.vertices[TopIndex(i, j, w) + 2][2] = g.vertices[TopIndex(i, j, w) + 1][2]

\* the first top triangle and the first bottom triangle of cell (i, j) start at the
\* top and at the bottom vertex of grid point (i, j)
CellStartsAtOwnVertices(g, i, j, w) ==
    /\ g.indices[12 * (i * w + j) + 1] = TopIndex(i, j, w)
    /\ g.indices[12 * (i * w + j) + 2] = TopIndex(i + 1, j, w)
    /\ g.indices[12 * (i * w + j) + 3] = TopIndex(i + 1, j + 1, w)
    /\ g.indices[12 * (i * w + j) + 7] = TopIndex(i, j, w) + 1

\* C27: every generation yields 2 (segments + 1) (widthSegments + 1) vertices and
\* 4 segments widthSegments + 4 segments + 4 widthSegments triangles whatever the
\* parameters, 5002 and 10000 at the resolution of the source; grid point (i, j)
\* owns the top vertex 2 (i (widthSegments + 1) + j) and the bottom vertex after it;
\* every index of the index buffer is a vertex index in 0..vertexCount - 1
C27_MeshSize ==
    /\ VertexCount(SourceSegments, SourceWidthSegments) = 5002
    /\ TriangleCount(SourceSegments, SourceWidthSegments) = 10000
    /\ geometry # Null =>
          /\ Len(geometry.vertices) = VertexCount(segments, widthSegments)
          /\ Len(geometry.indices) = 3 * TriangleCount(segments, widthSegments)
          /\ \A i \in 0..segments, j \in 0..widthSegments :
                OwnsVertexPair(geometry, i, j, segments, widthSegments, controls.length)
          /\ \A i \in 0..(segments - 1), j \in 0..(widthSegments - 1) :
                CellStartsAtOwnVertices(geometry, i, j, widthSegments)
          /\ \A k \in 1..Len(geometry.indices) :
                geometry.indices[k] \in 0..(Len(geometry.vertices) - 1)

\* a bowed kidney rib with per-edge thicknesses on the 2 x 3 grid: 24 vertices and
\* 44 triangles
C27_Witness ==
    /\ geometry # Null
    /\ segments = 2
    /\ widthSegments = 3
    /\ controls.shape = "kidney"
    /\ controls.edgeThicknessApply = "asymmetric"
    /\ controls.longitudinalCurve = 30
    /\ Len(geometry.vertices) = 24
    /\ Len(geometry.indices) = 132

----------------------------------------------------------------------------
(***************************************************************************)
(* SpecStats: one generation over sampled parameters, with the warnings of *)
(* an earlier generation still shown, and the statistics it leaves.        *)
(***************************************************************************)
StatSizes == {<<100, 60>>, <<50, 70>>}

StatProfiles ==
    {<<"straight", 45>>, <<"miter", 45>>, <<"sharp", 45>>, <<"custom-angle", 29>>,
     <<"custom-angle", 30>>, <<"custom-angle", 31>>}

StatControlSamples ==
    {[DefaultControls EXCEPT !.length = size[1] * Scale, !.width = size[2] * Scale,
                             !.thickness = th * Scale,
                             !.edgeThickness = IF et = 0 THEN th * Scale ELSE Dec(et, 10),
                             !.edgeDepth = ed * Scale,
                             !.angleType = pr[1], !.edgeAngle = pr[2],
                             !.longitudinalCurve = lc] :
        size \in StatSizes, th \in {6, 10}, et \in {0, 4, 5}, ed \in {10, 30, 31},
        pr \in StatProfiles, lc \in {0, 20, 21}}

StatGridSizes == {<<1, 1>>, <<2, MaxWidthSegments>>}

InitStats ==
    /\ FnIdle
    /\ UiIdle
    /\ statistics = Null
    /\ warnings \in [edgeThickness : BOOLEAN, edgeDepth : BOOLEAN]
    /\ warningsBefore = Null
    /\ controls \in StatControlSamples
    /\ customCurvePoints = <<>>
    /\ \E size \in StatGridSizes : segments = size[1] /\ widthSegments = size[2]
    /\ geometry = Null

NextStats == CallCreateRibGeometry

SpecStats == InitStats /\ [][NextStats]_vars

\* a plain box: rectangular, straight profile, the edge as thick as the body, no bend
IsPlainBox(c) ==
    /\ c.shape = "rectangular"
    /\ c.angleType = "straight"
    /\ c.edgeThickness = c.thickness
    /\ c.longitudinalCurve = 0

\* C11: the volume shown for a plain box is length x width x thickness / 1000 cm3
\* (here in hundredths of a cm3, the two decimals the panel shows), and 36.00 for
\* the 100 x 60 x 6 box with edge depth 10
C11_BoxVolume ==
    (geometry # Null /\ IsPlainBox(controls)) =>
        /\ 10 * statistics.volume =
              (controls.length \div Scale) * (controls.width \div Scale)
                  * (controls.thickness \div Scale)
        /\ (/\ controls.length = 100 * Scale
            /\ controls.width = 60 * Scale
            /\ controls.thickness = 6 * Scale
            /\ controls.edgeDepth = 10 * Scale) => statistics.volume = 3600

C11_Witness ==
    /\ geometry # Null
    /\ IsPlainBox(controls)
    /\ controls.length = 100 * Scale
    /\ controls.width = 60 * Scale
    /\ controls.thickness = 6 * Scale
    /\ controls.edgeDepth = 10 * Scale
    /\ segments = 2
    /\ statistics.volume = 3600

\* C13: after every generation needsSupports is shown true exactly for the sharp
\* profile and for a custom angle below 30 degrees; the orientation is "On Edge" with
\* supports, else "Flat (curved)" for a longitudinal curve above 20 percent, else
\* "Flat"; an angle of 30 and a curve of 20 give no supports and "Flat"
C13_SupportsAndOrientation ==
    geometry # Null =>
        /\ statistics.needsSupports <=>
               \/ controls.angleType = "sharp"
               \/ controls.angleType = "custom-angle" /\ controls.edgeAngle < 30
        /\ statistics.needsSupports => statistics.orientation = "On Edge"
        /\ (~statistics.needsSupports /\ controls.longitudinalCurve > 20) =>
               statistics.orientation = "Flat (curved)"
        /\ (~statistics.needsSupports /\ controls.longitudinalCurve <= 20) =>
               statistics.orientation = "Flat"
        /\ (controls.angleType = "custom-angle" /\ controls.edgeAngle = 30) =>
               ~statistics.needsSupports
        /\ (/\ controls.angleType \in {"straight", "miter", "custom-angle"}
            /\ controls.edgeAngle >= 30
            /\ controls.longitudinalCurve = 20) => statistics.orientation = "Flat"

C13_Witness ==
    /\ geometry # Null
    /\ controls.angleType = "custom-angle"
    /\ controls.edgeAngle = 30
    /\ controls.longitudinalCurve = 20
    /\ ~statistics.needsSupports
    /\ statistics.orientation = "Flat"

\* C15: after every generation the edge-thickness warning is shown exactly when the
\* edge thickness is below 0.5 mm and the edge-depth warning exactly when the edge
\* depth exceeds half the width or half the length, whatever was shown before, and
\* the mesh is there with or without a warning
C15_AdvisoryWarnings ==
    (geometry # Null \/ statistics # Null \/ warningsBefore # Null) =>
        /\ warnings.edgeThickness <=> 2 * controls.edgeThickness < Scale
        /\ warnings.edgeDepth <=>
               \/ 2 * controls.edgeDepth > controls.width
               \/ 2 * controls.edgeDepth > controls.length
        /\ geometry # Null
        /\ Len(geometry.vertices) = 2 * (segments + 1) * (widthSegments + 1)
        /\ Len(geometry.indices) > 0
        /\ statistics # Null

\* a warning of an earlier generation is gone and the other one is newly shown
C15_Witness ==
    /\ geometry # Null
    /\ warningsBefore = [edgeThickness |-> TRUE, edgeDepth |-> FALSE]
    /\ warnings = [edgeThickness |-> FALSE, edgeDepth |-> TRUE]
    /\ 2 * controls.edgeDepth > controls.length
    /\ 2 * controls.edgeDepth <= controls.width
    /\ Len(geometry.indices) > 0

----------------------------------------------------------------------------
(* SpecVolume: two generations that differ in the base thickness only: the  *)
(* first is measured, the thickness control is raised, the second is        *)
(* measured.  fnResult keeps the thickness and the volume of the first.     *)

VolumeControlSamples ==
    {[DefaultControls EXCEPT !.thickness = th * Scale, !.edgeThickness = et * Scale,
                             !.edgeDepth = ed * Scale, !.shape = sh, !.angleType = at,
                             !.longitudinalCurve = lc] :
        th \in {3, 4, 6}, et \in {3, 12}, ed \in {3, 10}, sh \in {"rectangular", "oval"},
        at \in {"straight", "sharp"}, lc \in {0, 30}}

LargerThicknessSamples == {4 * Scale, 6 * Scale, 10 * Scale}

VolumeGridSizes == {<<2, 2>>, <<MaxSegments, MaxWidthSegments>>}

InitVolume ==
    /\ FnIdle
    /\ UiIdle
    /\ StatIdle
    /\ controls \in VolumeControlSamples
    /\ customCurvePoints = <<>>
    /\ \E size \in VolumeGridSizes : segments = size[1] /\ widthSegments = size[2]
    /\ geometry = Null

\* the thickness control is raised after the first generation
RaiseThickness(th) ==
    /\ geometry # Null
    /\ pc = "ready"
    /\ th > controls.thickness
    /\ pc' = "done"
    /\ fnResult' = [thickness |-> controls.thickness, volume |-> statistics.volume]
    /\ controls' = [controls EXCEPT !.thickness = th]
    /\ geometry' = Null
    /\ UNCHANGED <<pageVars, fnArgs, customCurvePoints, segments, widthSegments, uiVars,
                   histVars>>

NextVolume ==
    \/ CallCreateRibGeometry
    \/ \E th \in LargerThicknessSamples : RaiseThickness(th)

SpecVolume == InitVolume /\ [][NextVolume]_vars

\* C19: of two generations that differ in the base thickness only, the one with the
\* larger base thickness has the strictly larger volume in the statistics
C19_VolumeGrowsWithThickness ==
    (pc = "done" /\ geometry # Null) =>
        /\ controls.thickness > fnResult.thickness
        /\ statistics.volume > fnResult.volume

\* the same where the edge is no thicker than the thinner of the two bases
VolumeGrowsUnderThinEdge ==
    (pc = "done" /\ geometry # Null /\ controls.edgeThickness <= fnResult.thickness) =>
        statistics.volume > fnResult.volume

----------------------------------------------------------------------------
(* Spec: the page after the script has run: load, control changes, presets,  *)
(* the custom curve button, the timers and the passing of time.  The         *)
(* drawing session is over: customCurvePoints holds what was drawn.          *)

MaxPendingTimers == 2
MaxLiveMeshes == 2
MaxBurst == 2

\* the input events of the controls: the thickness slider moved back and forth
ControlEdits ==
    {[field |-> "thickness", value |-> 6 * Scale],
     [field |-> "thickness", value |-> 10 * Scale]}

PresetSamples == {"thick-rigid"}

\* a stroke of six points, and a stroke too short to apply
DrawnCurveSamples ==
    {<<[x |-> 0, y |-> Half], [x |-> Dec(1, 4), y |-> Half]>>,
     <<[x |-> 0, y |-> Half], [x |-> Dec(1, 4), y |-> 0], [x |-> Half, y |-> Scale],
       [x |-> Dec(3, 4), y |-> Half], [x |-> Scale, y |-> Scale],
       [x |-> Scale, y |-> Half]>>}

Init ==
    /\ FnIdle
    /\ UiIdle
    /\ StatIdle
    /\ controls = DefaultControls
    /\ customCurvePoints \in DrawnCurveSamples
    /\ segments = 1
    /\ widthSegments = 1
    /\ geometry = Null

\* the timers of earlier requests, once a new request arrives
Earlier(tms) == [k \in DOMAIN tms |-> [tms[k] EXCEPT !.latest = FALSE]]

\* the listeners of the seven controls of a preset, one after the other
RECURSIVE debouncedUpdateTimes(_, _)
debouncedUpdateTimes(n, st) ==
    IF n = 0 THEN st ELSE debouncedUpdateTimes(n - 1, debouncedUpdate(st))

\* bookkeeping of an event that calls debouncedUpdate
NoteEvent ==
    /\ sinceLastEvent' = 0
    /\ callsSinceEvent' = 0
    /\ IF sinceLastEvent < DebounceDelay
       THEN /\ burstLen' = Min(burstLen + 1, MaxBurst)
            /\ builtInBurst' = builtInBurst
            /\ intermediateBuilt' = (intermediateBuilt \/ builtInBurst)
       ELSE /\ burstLen' = 1
            /\ builtInBurst' = FALSE
            /\ intermediateBuilt' = intermediateBuilt

\* window load: initScene creates the scene and calls updateRib
InitScene ==
    /\ ~sceneReady
    /\ sceneReady' = TRUE
    /\ \E st \in {updateRib([timers |-> Earlier(timers), updateTimeout |-> updateTimeout])} :
          timers' = st.timers /\ updateTimeout' = st.updateTimeout
    /\ rebuildsOfRequest' = 0
    /\ UNCHANGED <<pageVars, fnVars, meshVars, appRib, meshes, toast, sinceLastEvent,
                   callsSinceEvent, burstLen, builtInBurst, intermediateBuilt>>

\* an input or change event of a control: the listener calls debouncedUpdate
ControlInput(edit) ==
    /\ sceneReady
    /\ Len(ClearTimeout(timers, updateTimeout)) < MaxPendingTimers
    /\ controls[edit.field] # edit.value
    /\ controls' = [controls EXCEPT ![edit.field] = edit.value]
    /\ \E st \in {debouncedUpdate([timers |-> Earlier(timers),
                                   updateTimeout |-> updateTimeout])} :
          timers' = st.timers /\ updateTimeout' = st.updateTimeout
    /\ NoteEvent
    /\ rebuildsOfRequest' = 0
    /\ UNCHANGED <<pageVars, fnVars, customCurvePoints, segments, widthSegments, geometry,
                   sceneReady, appRib, meshes, toast>>

\* applyPreset: writes the seven values of the preset, dispatches input and change
\* on each of the seven controls (each has one listener that calls
\* debouncedUpdate), shows the toast and calls updateRib
ApplyPreset(name) ==
    /\ sceneReady
    /\ Len(ClearTimeout(timers, updateTimeout)) + 1 < MaxPendingTimers
    /\ controls' = WithPreset(controls, Presets[name])
    /\ \E st \in {updateRib(debouncedUpdateTimes(7,
                                  [timers |-> Earlier(timers),
                                   updateTimeout |-> updateTimeout]))} :
          timers' = st.timers /\ updateTimeout' = st.updateTimeout
    /\ toast' = showToast(<<"Preset applied: ", name>>, FALSE)
    /\ NoteEvent
    /\ rebuildsOfRequest' = 0
    /\ UNCHANGED <<pageVars, fnVars, customCurvePoints, segments, widthSegments, geometry,
                   sceneReady, appRib, meshes>>

\* applyCustomCurve: more than five points drawn, or the toast that asks for more
ApplyCustomCurve ==
    /\ sceneReady
    /\ IF Len(customCurvePoints) > 5
       THEN /\ Len(timers) < MaxPendingTimers
            /\ LET st == updateRib([timers |-> Earlier(timers),
                                    updateTimeout |-> updateTimeout])
               IN  timers' = st.timers /\ updateTimeout' = st.updateTimeout
            /\ toast' = showToast(<<"Custom shape applied successfully">>, FALSE)
            /\ rebuildsOfRequest' = 0
       ELSE /\ toast' = showToast(<<"Please draw a longer curve">>, TRUE)
            /\ UNCHANGED <<timers, updateTimeout, rebuildsOfRequest>>
    /\ UNCHANGED <<pageVars, fnVars, meshVars, sceneReady, appRib, meshes, sinceLastEvent,
                   callsSinceEvent, burstLen, builtInBurst, intermediateBuilt>>

\* the first pending timer that is due
DueTimer == CHOOSE k \in DOMAIN timers :
                /\ timers[k].remaining = 0
                /\ \A m \in 1..(k - 1) : timers[m].remaining # 0

Without(tms, k) == SubSeq(tms, 1, k - 1) \o SubSeq(tms, k + 1, Len(tms))

\* the debounce timer fires: updateRib
DebounceFires ==
    /\ \E k \in DOMAIN timers : timers[k].remaining = 0
    /\ timers[DueTimer].kind = "debounce"
    /\ \E st \in {updateRib([timers |-> Without(timers, DueTimer),
                              updateTimeout |-> updateTimeout])} :
          /\ timers' = [st.timers EXCEPT ![Len(st.timers)].latest =
                                               timers[DueTimer].latest]
          /\ updateTimeout' = st.updateTimeout
    /\ callsSinceEvent' = Min(callsSinceEvent + 1, 2)
    /\ UNCHANGED <<pageVars, fnVars, meshVars, sceneReady, appRib, meshes, toast, sinceLastEvent,
                   burstLen, builtInBurst, intermediateBuilt, rebuildsOfRequest>>

\* the deferred callback of updateRib runs: the old mesh is cleaned up, the new
\* geometry is created from the controls as they are now, the new mesh is installed
RebuildRuns ==
    /\ \E k \in DOMAIN timers : timers[k].remaining = 0
    /\ timers[DueTimer].kind = "rebuild"
    /\ Cardinality(DOMAIN meshes) <= MaxLiveMeshes
    /\ timers' = Without(timers, DueTimer)
    /\ \E g \in {createRibGeometry(getGeometryParameters(controls), customCurvePoints,
                                    controls.smoothingAmount, segments, widthSegments)},
          id \in {FreshMeshId(meshes)} :
          /\ meshes' = Collect(InstallMesh(CleanUpOldMesh(meshes, appRib), id,
                                           [vertices |-> g.vertices,
                                            indices |-> g.indices]), id)
          /\ appRib' = id
          /\ customCurvePoints' = g.curvePoints
          /\ statistics' = g.statistics
          /\ warnings' = g.warnings
          /\ warningsBefore' = warnings
    /\ builtInBurst' = TRUE
    /\ rebuildsOfRequest' =
          IF timers[DueTimer].latest THEN Min(rebuildsOfRequest + 1, 2)
          ELSE rebuildsOfRequest
    /\ UNCHANGED <<exported, drawVars, fnVars, controls, segments, widthSegments, geometry, sceneReady,
                   updateTimeout, toast, sinceLastEvent, callsSinceEvent, burstLen,
                   intermediateBuilt>>

\* UpdateDelay ms pass; a due timer runs before more time passes
Tick ==
    /\ timers # <<>> \/ sinceLastEvent < DebounceDelay
    /\ \A k \in DOMAIN timers : timers[k].remaining > 0
    /\ timers' = [k \in DOMAIN timers |->
                     [timers[k] EXCEPT !.remaining = @ - UpdateDelay]]
    /\ sinceLastEvent' = Min(DebounceDelay, sinceLastEvent + UpdateDelay)
    /\ UNCHANGED <<pageVars, fnVars, meshVars, sceneReady, updateTimeout, appRib, meshes, toast,
                   callsSinceEvent, burstLen, builtInBurst, intermediateBuilt,
                   rebuildsOfRequest>>

Next ==
    \/ InitScene
    \/ \E edit \in ControlEdits : ControlInput(edit)
    \/ \E name \in PresetSamples : ApplyPreset(name)
    \/ ApplyCustomCurve
    \/ DebounceFires
    \/ RebuildRuns
    \/ Tick

Spec == Init /\ [][Next]_vars

PendingDebounce == {k \in DOMAIN timers : timers[k].kind = "debounce"}

\* each event cancels the timer of the previous one: at most one debounce timer is
\* pending, and it is the one updateTimeout holds
OneDebounceTimer ==
    /\ Cardinality(PendingDebounce) <= 1
    /\ \A k \in PendingDebounce : timers[k].id = updateTimeout

\* one updateRib call results from a burst, a full window after its last event
OneCallAfterBurst ==
    /\ callsSinceEvent <= 1
    /\ (burstLen > 0 /\ PendingDebounce = {}) => callsSinceEvent = 1
    /\ callsSinceEvent = 1 => sinceLastEvent >= DebounceDelay

\* C3: in a burst of events that call debouncedUpdate, each event cancels the timer
\* of the previous one, at most one debounce timer is pending, exactly one updateRib
\* call results, after the last event, and no parameter set that a later event of
\* the burst replaces has produced a mesh.
C3_DebouncedBurst ==
    /\ OneDebounceTimer
    /\ OneCallAfterBurst
    /\ ~intermediateBuilt

\* C4: at any time at most one rebuild is scheduled, whether as debounce timer or as
\* deferred callback of updateRib, and one request never causes two mesh rebuilds.
C4_RequestSupersedes ==
    /\ Len(timers) <= 1
    /\ rebuildsOfRequest <= 1

\* C5: after any sequence of rebuilds the scene holds at most one rib mesh, the one
\* appRib refers to, which is not disposed; every replaced mesh is out of the scene
\* with its geometry and its material disposed.
C5_OneLiveMesh ==
    \A id \in DOMAIN meshes :
        IF id = appRib
        THEN /\ meshes[id].inScene
             /\ ~meshes[id].geometryDisposed
             /\ ~meshes[id].materialDisposed
        ELSE /\ ~meshes[id].inScene
             /\ meshes[id].geometryDisposed
             /\ meshes[id].materialDisposed

\* a mesh has been replaced: the second mesh object is the current one
C5_Witness ==
    /\ appRib = 2
    /\ DOMAIN meshes = {2}
    /\ meshes[2].inScene

----------------------------------------------------------------------------
(* SpecPreset: the page is loaded, the user moves some controls away from   *)
(* their defaults, then applies a preset and lets the timers run.           *)

\* the edits before the preset: the bend, the profile, the angle, the thickness mode
PriorEdits ==
    {[field |-> "longitudinalCurve", value |-> 30],
     [field |-> "angleType", value |-> "custom-angle"],
     [field |-> "edgeAngle", value |-> 20],
     [field |-> "edgeThicknessApply", value |-> "asymmetric"]}

NoToast == [message |-> <<>>, isError |-> FALSE]

InitPreset ==
    /\ FnIdle
    /\ UiIdle
    /\ StatIdle
    /\ controls = DefaultControls
    /\ customCurvePoints = <<>>
    /\ segments = 1
    /\ widthSegments = 1
    /\ geometry = Null

\* an edit of a control while no preset has been applied
PriorControlInput(edit) ==
    /\ toast = NoToast
    /\ ControlInput(edit)

NextPreset ==
    \/ InitScene
    \/ \E edit \in PriorEdits : PriorControlInput(edit)
    \/ ApplyPreset("thick-rigid")
    \/ DebounceFires
    \/ RebuildRuns
    \/ Tick

SpecPreset == InitPreset /\ [][NextPreset]_vars

\* the thick-rigid preset was applied and every timer it started has run
PresetRebuilt ==
    /\ toast = showToast(<<"Preset applied: ", "thick-rigid">>, FALSE)
    /\ timers = <<>>
    /\ appRib # 0

\* C12: once the thick-rigid preset is applied, from whatever the controls were, and
\* its rebuild has run, the statistics show no supports and the orientation "Flat"
C12_ThickRigidFlat ==
    PresetRebuilt =>
        /\ statistics # Null
        /\ ~statistics.needsSupports
        /\ statistics.orientation = "Flat"

\* the preset was applied over a bend of 30 percent and its rebuild has run
C12_CurvedPrior ==
    /\ PresetRebuilt
    /\ controls.longitudinalCurve = 30
    /\ controls.thickness = 10 * Scale
    /\ ~statistics.needsSupports
    /\ statistics.orientation = "Flat (curved)"

----------------------------------------------------------------------------
(* SpecFailure: the page where a generation can raise.  The deferred        *)
(* callback of updateRib cleans up the old mesh first and calls             *)
(* createRibGeometry inside try ... finally, with no catch: an exception of *)
(* createRibGeometry leaves the callback after the clean-up.                *)

\* the deferred callback of updateRib in which createRibGeometry raises
RebuildRaises ==
    /\ \E k \in DOMAIN timers : timers[k].remaining = 0
    /\ timers[DueTimer].kind = "rebuild"
    /\ timers' = Without(timers, DueTimer)
    /\ meshes' = Collect(CleanUpOldMesh(meshes, appRib), appRib)
    /\ UNCHANGED <<pageVars, fnVars, meshVars, sceneReady, updateTimeout, appRib, toast,
                   histVars>>

NextFailure ==
    \/ InitScene
    \/ \E edit \in ControlEdits : ControlInput(edit)
    \/ DebounceFires
    \/ RebuildRuns
    \/ RebuildRaises
    \/ Tick

SpecFailure == InitPreset /\ [][NextFailure]_vars

----------------------------------------------------------------------------
(* Export: the text of the STL and OBJ files, line by line, and SpecExport, *)
(* the page with its two export buttons next to the thickness slider and   *)
(* the timers.                                                              *)

\* the digits toFixed(6) keeps: millionths
Micro == 1000000

\* toFixed(6) of a magnitude, in millionths
MicroOf(a) ==
    (a \div Scale) * Micro + ((a % Scale) * (Micro \div 20) * 2 + Grain) \div (2 * Grain)

\* toFixed(6), in millionths
toFixed6(v) == IF v >= 0 THEN MicroOf(v) ELSE -MicroOf(-v)

\* crossVectors(subVectors(v2, v1), subVectors(v3, v1)), on twentieths of a mm
crossVectors(v1, v2, v3) ==
    <<(v2[2] - v1[2]) * (v3[3] - v1[3]) - (v2[3] - v1[3]) * (v3[2] - v1[2]),
      (v2[3] - v1[3]) * (v3[1] - v1[1]) - (v2[1] - v1[1]) * (v3[3] - v1[3]),
      (v2[1] - v1[1]) * (v3[2] - v1[2]) - (v2[2] - v1[2]) * (v3[1] - v1[1])>>

\* a vector brought down to components of at most 1000, its direction kept to
\* about three digits
Shrunk(n) ==
    <<Div(n[1], Max(Max(Abs(n[1]), Abs(n[2])), Abs(n[3])) \div 1000 + 1),
      Div(n[2], Max(Max(Abs(n[1]), Abs(n[2])), Abs(n[3])) \div 1000 + 1),
      Div(n[3], Max(Max(Abs(n[1]), Abs(n[2])), Abs(n[3])) \div 1000 + 1)>>

\* the length of a shrunk vector
ShrunkLength(u) == ISqrtBetween(u[1] * u[1] + u[2] * u[2] + u[3] * u[3], 0, 2000)

\* normalize() and toFixed(6): a vector of length 0 stays (0, 0, 0)
normalizeShrunk(u, len) ==
    IF len = 0 THEN <<0, 0, 0>>
    ELSE <<Div(u[1] * Micro, len), Div(u[2] * Micro, len), Div(u[3] * Micro, len)>>

normalize(n) == normalizeShrunk(Shrunk(n), ShrunkLength(Shrunk(n)))

\* a vertex of the position buffer as a "vertex" or "v" line
VertexLine(kind, v) ==
    [kind |-> kind, x |-> toFixed6(v[1]), y |-> toFixed6(v[2]), z |-> toFixed6(v[3])]

\* line part of the facet block of triangle t (1-based): 0 facet normal, 1 outer
\* loop, 2..4 the three vertices, 5 endloop, 6 endfacet
StlLine(g, t, part) ==
    CASE part = 0 ->
            [kind |-> "facet normal",
             normal |-> normalize(crossVectors(PositionOf(g.vertices, g.indices[3 * t - 2]),
                                               PositionOf(g.vertices, g.indices[3 * t - 1]),
                                               PositionOf(g.vertices, g.indices[3 * t])))]
      [] part = 1 -> [kind |-> "outer loop"]
      [] part \in 2..4 -> VertexLine("vertex", g.vertices[g.indices[3 * t - 4 + part] + 1])
      [] part = 5 -> [kind |-> "endloop"]
      [] OTHER -> [kind |-> "endfacet"]

\* the lines of the STL file
exportSTL(g) ==
    [k \in 1..(7 * (Len(g.indices) \div 3) + 2) |->
        IF k = 1 THEN [kind |-> "solid", name |-> "pottery_rib"]
        ELSE IF k = 7 * (Len(g.indices) \div 3) + 2
        THEN [kind |-> "endsolid", name |-> "pottery_rib"]
        ELSE StlLine(g, (k - 2) \div 7 + 1, (k - 2) % 7)]

\* the face lines of the OBJ file with the indices as they are in the buffer
ObjFaceLineZeroBased(g, t) ==
    [kind |-> "f", a |-> g.indices[3 * t - 2], b |-> g.indices[3 * t - 1],
     c |-> g.indices[3 * t]]

\* the face line of triangle t (1-based) of the OBJ file
ObjFaceLine(g, t) ==
    [kind |-> "f", a |-> g.indices[3 * t - 2] + 1, b |-> g.indices[3 * t - 1] + 1,
     c |-> g.indices[3 * t] + 1]

\* the lines of the OBJ file
exportOBJ(g) ==
    [k \in 1..(Len(g.vertices) + Len(g.indices) \div 3 + 4) |->
        IF k = 1 THEN [kind |-> "#", text |-> "Pottery Rib"]
        ELSE IF k = 2 THEN [kind |-> "#", text |-> "Generated by Pottery Rib Customizer"]
        ELSE IF k = 3 \/ k = Len(g.vertices) + 4 THEN [kind |-> ""]
        ELSE IF k <= Len(g.vertices) + 3 THEN VertexLine("v", g.vertices[k - 3])
        ELSE ObjFaceLine(g, k - Len(g.vertices) - 4)]

\* appRib.geometry raises while appRib is unset
Raised == [raised |-> "TypeError"]

\* appRib.geometry answering an empty geometry while no mesh is installed
geometryOfGuarded(store, rib) ==
    IF rib = 0 THEN [vertices |-> <<>>, indices |-> <<>>] ELSE store[rib].geometry

\* appRib.geometry: reading a property of the undefined appRib raises
geometryOf(store, rib) == IF rib = 0 THEN Raised ELSE store[rib].geometry

\* the STL button
ExportSTL ==
    /\ IF geometryOf(meshes, appRib) = Raised
       THEN exported' = Raised /\ toast' = toast
       ELSE /\ exported' = [name |-> "pottery_rib.stl",
                            lines |-> exportSTL(geometryOf(meshes, appRib))]
            /\ toast' = showToast(<<"STL file downloaded successfully">>, FALSE)
    /\ UNCHANGED <<statVars, drawVars, fnVars, meshVars, sceneReady, timers, updateTimeout,
                   appRib, meshes, histVars>>

\* the OBJ button
ExportOBJ ==
    /\ IF geometryOf(meshes, appRib) = Raised
       THEN exported' = Raised /\ toast' = toast
       ELSE /\ exported' = [name |-> "pottery_rib.obj",
                            lines |-> exportOBJ(geometryOf(meshes, appRib))]
            /\ toast' = showToast(<<"OBJ file downloaded successfully">>, FALSE)
    /\ UNCHANGED <<statVars, drawVars, fnVars, meshVars, sceneReady, timers, updateTimeout,
                   appRib, meshes, histVars>>

InitExport ==
    /\ FnIdle
    /\ UiIdle
    /\ StatIdle
    /\ controls = DefaultControls
    /\ customCurvePoints = <<>>
    /\ segments = 1
    /\ widthSegments = 2
    /\ geometry = Null

NextExport ==
    \/ InitScene
    \/ \E edit \in ControlEdits : ControlInput(edit)
    \/ DebounceFires
    \/ RebuildRuns
    \/ Tick
    \/ ExportSTL
    \/ ExportOBJ

SpecExport == InitExport /\ [][NextExport]_vars

LinesOfKind(lines, kind) == SelectSeq(lines, LAMBDA l : l.kind = kind)

\* the "v" lines v and the "f" lines f list the vertices of g in buffer order and
\* its triangles with every index raised by one
ObjLinesMatch(v, f, g) ==
    /\ Len(v) = Len(g.vertices)
    /\ \A k \in DOMAIN g.vertices :
          /\ v[k].x = toFixed6(g.vertices[k][1])
          /\ v[k].y = toFixed6(g.vertices[k][2])
          /\ v[k].z = toFixed6(g.vertices[k][3])
    /\ 3 * Len(f) = Len(g.indices)
    /\ \A t \in DOMAIN f :
          /\ f[t].a \in 1..Len(v)
          /\ f[t].b \in 1..Len(v)
          /\ f[t].c \in 1..Len(v)
          /\ f[t].a - 1 = g.indices[3 * t - 2]
          /\ f[t].b - 1 = g.indices[3 * t - 1]
          /\ f[t].c - 1 = g.indices[3 * t]

\* an OBJ file that lists the vertices of g and then its triangles
ObjKeepsTopology(file, g) ==
    /\ file.name = "pottery_rib.obj"
    /\ \A i, j \in DOMAIN file.lines :
          (file.lines[i].kind = "v" /\ file.lines[j].kind = "f") => i < j
    /\ \E v \in {LinesOfKind(file.lines, "v")}, f \in {LinesOfKind(file.lines, "f")} :
          ObjLinesMatch(v, f, g)

\* an STL file with one facet block of three vertex lines for each triangle of g,
\* between "solid pottery_rib" and "endsolid pottery_rib"
StlKeepsTopology(file, g) ==
    /\ file.name = "pottery_rib.stl"
    /\ Len(file.lines) = 7 * (Len(g.indices) \div 3) + 2
    /\ file.lines[1] = [kind |-> "solid", name |-> "pottery_rib"]
    /\ file.lines[Len(file.lines)] = [kind |-> "endsolid", name |-> "pottery_rib"]
    /\ 3 * Len(LinesOfKind(file.lines, "facet normal")) = Len(g.indices)
    /\ Len(LinesOfKind(file.lines, "vertex")) = Len(g.indices)
    /\ \A t \in 1..(Len(g.indices) \div 3) :
          /\ file.lines[7 * t - 5].kind = "facet normal"
          /\ file.lines[7 * t - 4].kind = "outer loop"
          /\ \A c \in 1..3 :
                /\ file.lines[7 * t - 4 + c].kind = "vertex"
                /\ file.lines[7 * t - 4 + c].x =
                      toFixed6(g.vertices[g.indices[3 * t - 3 + c] + 1][1])
                /\ file.lines[7 * t - 4 + c].y =
                      toFixed6(g.vertices[g.indices[3 * t - 3 + c] + 1][2])
                /\ file.lines[7 * t - 4 + c].z =
                      toFixed6(g.vertices[g.indices[3 * t - 3 + c] + 1][3])
          /\ file.lines[7 * t].kind = "endloop"
          /\ file.lines[7 * t + 1].kind = "endfacet"

\* a step that writes a file writes the OBJ or the STL file of the installed mesh,
\* and a step that exports, or fails to, leaves the mesh, the controls, the drawn
\* curve and the timers as they are
ExportIsPure ==
    (exported' # exported) =>
        /\ exported' # Raised =>
              /\ appRib # 0
              /\ \/ ObjKeepsTopology(exported', meshes[appRib].geometry)
                 \/ StlKeepsTopology(exported', meshes[appRib].geometry)
        /\ UNCHANGED <<meshes, appRib, geometry, controls, customCurvePoints, segments,
                       widthSegments, timers, updateTimeout, statistics>>

\* C16: exportOBJ writes one "v" line per vertex in buffer order and then one "f"
\* line per triangle with the triangle's indices plus 1; exportSTL writes one facet
\* block with three vertex lines per triangle between "solid pottery_rib" and
\* "endsolid pottery_rib"; neither changes the mesh, the parameters or a timer
C16_ExportPreservesTopology == [][ExportIsPure]_vars

\* an OBJ file of the 1 x 2 grid has been written while a timer was pending
C16_Witness ==
    /\ exported # Null
    /\ exported # Raised
    /\ exported.name = "pottery_rib.obj"
    /\ Len(exported.lines) = Len(meshes[appRib].geometry.vertices)
                                + Len(meshes[appRib].geometry.indices) \div 3 + 4
    /\ Len(meshes[appRib].geometry.vertices) > 0
    /\ timers # <<>>

\* an export while no mesh is installed raises: it writes no file, shows no toast
\* and changes nothing else
RaisesWithoutMesh ==
    /\ (exported' # exported /\ appRib = 0) => exported' = Raised
    /\ (exported' # exported /\ exported' = Raised) =>
          /\ appRib = 0
          /\ UNCHANGED <<toast, meshes, appRib, geometry, controls, customCurvePoints,
                         segments, widthSegments, timers, updateTimeout, sceneReady,
                         statistics, warnings, isDrawing, drawingHistory>>

\* initScene installs no mesh: it leaves appRib unset and only starts the timer of
\* the first rebuild, due UpdateDelay ms later
InitSceneOnlySchedules ==
    (~sceneReady /\ sceneReady') =>
        /\ appRib = 0
        /\ appRib' = 0
        /\ meshes' = meshes
        /\ \E k \in DOMAIN timers' :
              /\ timers'[k].kind = "rebuild"
              /\ timers'[k].remaining = UpdateDelay

\* appRib is set by a rebuild and stays set
NeverUnset ==
    /\ appRib # 0 => appRib' # 0
    /\ appRib' # appRib => (appRib' \in DOMAIN meshes' /\ meshes'[appRib'].inScene)

\* C29: initScene only schedules the first rebuild; until its callback has run appRib
\* is unset and exportSTL and exportOBJ raise on appRib.geometry, without a file, a
\* toast or any change of state; once a rebuild has set appRib it is never unset
C29_ExportBeforeFirstRebuild ==
    [][RaisesWithoutMesh /\ InitSceneOnlySchedules /\ NeverUnset]_vars

\* the page is loaded, the first rebuild is still pending and an export has raised
C29_Witness ==
    /\ sceneReady
    /\ appRib = 0
    /\ meshes = <<>>
    /\ \E k \in DOMAIN timers : timers[k].kind = "rebuild"
    /\ exported = Raised
    /\ toast.message = <<>>

----------------------------------------------------------------------------
(* SpecDraw: the drawing canvas.  The pointer follows one path from left to *)
(* right; mousedown and mousemove push the position the pointer has reached *)
(* onto customCurvePoints.  The shape control, the apply, clear and undo     *)
(* buttons and the timers act on whatever has been drawn so far; the shape  *)
(* control is changed while no timer is pending.                            *)

MaxDrawnPoints == 6

\* the k-th position of the pointer, in canvas fractions
PointerPath(k) ==
    [x |-> Div((k - 1) * Scale, MaxDrawnPoints),
     y |-> IF k % 2 = 1 THEN Half ELSE Dec(1, 4)]

ShapeEdits ==
    {[field |-> "shape", value |-> "custom"],
     [field |-> "shape", value |-> "rectangular"]}

InitDraw ==
    /\ FnIdle
    /\ UiIdle
    /\ StatIdle
    /\ controls = DefaultControls
    /\ customCurvePoints = <<>>
    /\ segments = 1
    /\ widthSegments = 1
    /\ geometry = Null

\* mousedown on the canvas; pc is "ready" while a stroke was the last change of the
\* drawing, "undone" after undoDrawing and "cleared" after clearDrawing
MouseDown ==
    /\ Len(customCurvePoints) < MaxDrawnPoints
    /\ isDrawing' = TRUE
    /\ drawingHistory' = customCurvePoints
    /\ customCurvePoints' = Append(customCurvePoints,
                                   PointerPath(Len(customCurvePoints) + 1))
    /\ pc' = "ready"
    /\ UNCHANGED <<statVars, exported, fnArgs, fnResult, controls, segments, widthSegments, geometry,
                   uiVars, histVars>>

\* mousemove on the canvas: ignored unless the button is down
MouseMove ==
    /\ Len(customCurvePoints) < MaxDrawnPoints
    /\ customCurvePoints' =
          IF isDrawing
          THEN Append(customCurvePoints, PointerPath(Len(customCurvePoints) + 1))
          ELSE customCurvePoints
    /\ pc' = IF isDrawing THEN "ready" ELSE pc
    /\ UNCHANGED <<pageVars, fnArgs, fnResult, controls, segments, widthSegments,
                   geometry, uiVars, histVars>>

\* mouseup on the canvas
MouseUp ==
    /\ isDrawing' = FALSE
    /\ UNCHANGED <<statVars, exported, drawingHistory, fnVars, meshVars, uiVars, histVars>>

\* clearDrawing
ClearDrawing ==
    /\ customCurvePoints' = <<>>
    /\ drawingHistory' = <<>>
    /\ pc' = "cleared"
    /\ UNCHANGED <<statVars, exported, isDrawing, fnArgs, fnResult, controls, segments,
                   widthSegments, geometry, uiVars, histVars>>

\* undoDrawing: back to the points before the last stroke, if there were any
UndoDrawing ==
    /\ customCurvePoints' =
          IF Len(drawingHistory) > 0 THEN drawingHistory ELSE customCurvePoints
    /\ pc' = "undone"
    /\ UNCHANGED <<pageVars, fnArgs, fnResult, controls, segments, widthSegments,
                   geometry, uiVars, histVars>>

\* the shape control changed while the page is at rest
SettledControlInput(edit) ==
    /\ timers = <<>>
    /\ ControlInput(edit)

NextDraw ==
    \/ InitScene
    \/ MouseDown
    \/ MouseMove
    \/ MouseUp
    \/ ClearDrawing
    \/ UndoDrawing
    \/ ApplyCustomCurve
    \/ \E edit \in ShapeEdits : SettledControlInput(edit)
    \/ DebounceFires
    \/ RebuildRuns
    \/ Tick

SpecDraw == InitDraw /\ [][NextDraw]_vars

\* applyCustomCurve on a curve of 5 points or fewer only shows the error message
ShortApplyOnlyToasts ==
    (ApplyCustomCurve /\ Len(customCurvePoints) <= 5) =>
        (timers' = timers /\ appRib' = appRib /\ toast'.isError)

\* a rebuild under the custom shape smooths no curve of 1 to 5 points
NoShortCurveRebuilt ==
    (RebuildRuns /\ controls.shape = "custom") => Len(customCurvePoints) \notin 1..5

\* C14: a curve of fewer than 6 points never feeds geometry: applyCustomCurve on
\* such a curve starts no timer and shows the message asking for more drawing, and
\* no rebuild, by whatever route it was requested, smooths a curve of 1 to 5 points
\* while the shape is "custom"
C14_ShortCurveNeverUsed == [][ShortApplyOnlyToasts /\ NoShortCurveRebuilt]_vars

\* the first half alone
C14_ShortApplyRejected == [][ShortApplyOnlyToasts]_vars

\* C25: after undoDrawing the curve is the sequence held before the most recent
\* mousedown, which mousedown saved in drawingHistory, also when that sequence was
\* empty; after clearDrawing the curve and drawingHistory are both empty
C25_UndoRestoresPriorCurve ==
    /\ pc = "undone" => customCurvePoints = drawingHistory
    /\ pc = "cleared" => (customCurvePoints = <<>> /\ drawingHistory = <<>>)

\* the second half alone
C25_ClearEmptiesBoth ==
    pc = "cleared" => (customCurvePoints = <<>> /\ drawingHistory = <<>>)

\* undoDrawing after a second stroke gave back the first stroke
C25_SecondStrokeUndone ==
    /\ pc = "undone"
    /\ Len(drawingHistory) > 0
    /\ customCurvePoints = drawingHistory

----------------------------------------------------------------------------
(* SpecDeterminism: one input is generated twice, by the generator of        *)
(* part_001 or by the legacy generator, with generations of other inputs     *)
(* before and between the two runs                                           *)

MaxLegacyPositions == 16

\* the values Math.random returns, and the draws one generation can make: the main
\* generator has no call of Math.random, the legacy one calls it in its loops
RandomSamples == {0, Dec(3, 4)}
RandomDraws(in) ==
    IF in.generator = "main" THEN {<<>>}
    ELSE [1..(((MaxLegacyPositions - 1) \div 10) + 1) -> RandomSamples]

LegacyParamSamples ==
    {[size |-> 50 * Scale, thickness |-> 5 * Scale, edgeType |-> e, curve |-> Half,
      texture |-> tx] : e \in {"flat", "custom"}, tx \in {"none", "ridges", "dots"}}

GenerationInputs ==
    {[generator |-> "main", params |-> c, curve |-> <<[x |-> 0, y |-> Half], [x |-> Dec(1, 4), y |-> 0],
                                   [x |-> Half, y |-> Scale], [x |-> Scale, y |-> Scale]>>] :
        c \in {DefaultControls,
               [DefaultControls EXCEPT !.shape = "custom"],
               [DefaultControls EXCEPT !.shape = "oval", !.angleType = "rounded"]}}
    \cup
    {[generator |-> "legacy", params |-> q,
      curve |-> <<[x |-> 10 * Scale, y |-> 0], [x |-> 20 * Scale, y |-> 4 * Scale]>>] :
        q \in LegacyParamSamples}

\* one generation: the buffers it returns and the custom curve it leaves behind
Generated(g) ==
    [buffers |-> [vertices |-> g.vertices, indices |-> g.indices],
     curvePoints |-> g.curvePoints, statistics |-> g.statistics, warnings |-> g.warnings]

Generate(in, nSegments, wSegments, random) ==
    IF in.generator = "main"
    THEN Generated(createRibGeometry(getGeometryParameters(in.params), in.curve,
                                     in.params.smoothingAmount, nSegments, wSegments))
    ELSE [buffers |-> [position |-> createRibGeometryLegacy(in.params, in.curve,
                                                            MaxLegacyPositions, random)],
          curvePoints |-> in.curve, statistics |-> statistics, warnings |-> warnings]

InitDeterminism ==
    /\ pc = "ready"
    /\ fnArgs \in GenerationInputs
    /\ fnResult = <<>>
    /\ controls = DefaultControls
    /\ customCurvePoints = <<>>
    /\ segments = 1
    /\ widthSegments = 2
    /\ geometry = Null
    /\ UiIdle
    /\ StatIdle

\* a run of the input under comparison
RunCompared ==
    /\ pc = "ready"
    /\ \E random \in RandomDraws(fnArgs) :
          \E out \in {Generate(fnArgs, segments, widthSegments, random)} :
              /\ fnResult' = Append(fnResult, [buffers |-> out.buffers, before |-> geometry])
              /\ geometry' = out.buffers
              /\ customCurvePoints' = out.curvePoints
              /\ statistics' = out.statistics
              /\ warnings' = out.warnings
              /\ warningsBefore' = warnings
    /\ pc' = IF Len(fnResult) = 1 THEN "done" ELSE "ready"
    /\ UNCHANGED <<exported, drawVars, fnArgs, controls, segments, widthSegments, uiVars, histVars>>

\* a generation of another input
RunOther ==
    /\ pc = "ready"
    /\ \E in \in GenerationInputs \ {fnArgs} : \E random \in RandomDraws(in) :
          \E out \in {Generate(in, segments, widthSegments, random)} :
              /\ geometry' = out.buffers
              /\ customCurvePoints' = out.curvePoints
              /\ statistics' = out.statistics
              /\ warnings' = out.warnings
              /\ warningsBefore' = warnings
    /\ UNCHANGED <<exported, drawVars, fnVars, controls, segments, widthSegments, uiVars, histVars>>

NextDeterminism == RunCompared \/ RunOther

SpecDeterminism == InitDeterminism /\ [][NextDeterminism]_vars

IsDots(in) == in.generator = "legacy" /\ in.params.texture = "dots"

DotsDiffer ==
    /\ Len(fnResult) = 2
    /\ IsDots(fnArgs)
    /\ fnResult[1].buffers # fnResult[2].buffers


----------------------------------------------------------------------------
(* SpecLegacy: the page of main.js. ribMesh is held in appRib, the objects   *)
(* created by updateRib in meshes, the five controls in controls             *)

MaxLegacyMeshes == 2

\* the controls of main.js as the page loads
LegacyControls ==
    [size |-> 50 * Scale, thickness |-> 5 * Scale, edgeType |-> "flat", curve |-> Half,
     texture |-> "none"]

\* the pointer positions of a stroke on drawCanvas
LegacyStroke == <<[x |-> 10 * Scale, y |-> 0], [x |-> 20 * Scale, y |-> 4 * Scale]>>

\* what the listeners of size, thickness, curve and texture can find in their control
LegacyEdits ==
    {[field |-> "size", value |-> 40 * Scale], [field |-> "size", value |-> 50 * Scale],
     [field |-> "thickness", value |-> 3 * Scale], [field |-> "thickness", value |-> 5 * Scale],
     [field |-> "texture", value |-> "none"], [field |-> "texture", value |-> "dots"]}

WithLegacyEdit(c, edit) ==
    CASE edit.field = "size" -> [c EXCEPT !.size = edit.value]
      [] edit.field = "thickness" -> [c EXCEPT !.thickness = edit.value]
      [] edit.field = "curve" -> [c EXCEPT !.curve = edit.value]
      [] OTHER -> [c EXCEPT !.texture = edit.value]

\* if (ribMesh) scene.remove(ribMesh): the mesh leaves the scene, nothing is disposed
SceneRemove(store, rib) ==
    IF rib # 0 THEN [store EXCEPT ![rib].inScene = FALSE] ELSE store

\* the Math.random draws of one legacy generation
LegacyDraws == [1..(((MaxLegacyPositions - 1) \div 15) + 1) -> RandomSamples]

\* updateRib of main.js, run synchronously by its caller: generate from the controls
\* c and the curve, remove the old mesh from the scene, install the new one
LegacyUpdateRib(c, curvePoints) ==
    /\ Cardinality(DOMAIN meshes) <= MaxLegacyMeshes
    /\ \E random \in LegacyDraws, id \in {FreshMeshId(meshes)} :
          /\ meshes' = InstallMesh(SceneRemove(meshes, appRib), id,
                           [position |-> createRibGeometryLegacy(c, curvePoints,
                                             MaxLegacyPositions, random)])
          /\ appRib' = id

InitLegacy ==
    /\ FnIdle
    /\ UiIdle
    /\ StatIdle
    /\ controls = LegacyControls
    /\ customCurvePoints = <<>>
    /\ segments = 1
    /\ widthSegments = 1
    /\ geometry = Null

\* the call of updateRib that ends the script
LegacyLoad ==
    /\ ~sceneReady
    /\ sceneReady' = TRUE
    /\ LegacyUpdateRib(controls, customCurvePoints)
    /\ UNCHANGED <<pageVars, fnVars, meshVars, timers, updateTimeout, toast, histVars>>

\* input on size, thickness, curve or texture, which gave the control another
\* value: the listener is updateRib
LegacyControlInput(edit) ==
    /\ sceneReady
    /\ WithLegacyEdit(controls, edit) # controls
    /\ controls' = WithLegacyEdit(controls, edit)
    /\ LegacyUpdateRib(controls', customCurvePoints)
    /\ UNCHANGED <<pageVars, fnVars, customCurvePoints, segments, widthSegments, geometry,
                   sceneReady, timers, updateTimeout, toast, histVars>>

\* change of edgeType: "custom" only opens the canvas, any other value drops the
\* drawn curve and updates
LegacyEdgeTypeChange(value) ==
    /\ sceneReady
    /\ controls' = [controls EXCEPT !.edgeType = value]
    /\ IF value = "custom"
       THEN UNCHANGED <<customCurvePoints, meshes, appRib>>
       ELSE /\ customCurvePoints' = <<>>
            /\ LegacyUpdateRib(controls', <<>>)
    /\ UNCHANGED <<pageVars, fnVars, segments, widthSegments, geometry, sceneReady, timers,
                   updateTimeout, toast, histVars>>

\* mousedown, mouseup and mouseout on drawCanvas
LegacyMouseButton(down) ==
    /\ sceneReady
    /\ isDrawing' = down
    /\ UNCHANGED <<statVars, exported, drawingHistory, fnVars, meshVars, uiVars, histVars>>

\* mousemove on drawCanvas
LegacyMouseMove ==
    /\ sceneReady
    /\ Len(customCurvePoints) < Len(LegacyStroke)
    /\ customCurvePoints' =
          IF isDrawing
          THEN Append(customCurvePoints, LegacyStroke[Len(customCurvePoints) + 1])
          ELSE customCurvePoints
    /\ UNCHANGED <<pageVars, fnVars, controls, segments, widthSegments, geometry, uiVars,
                   histVars>>

\* the saveCurve button
LegacySaveCurve ==
    /\ sceneReady
    /\ LegacyUpdateRib(controls, customCurvePoints)
    /\ UNCHANGED <<pageVars, fnVars, meshVars, sceneReady, timers, updateTimeout, toast,
                   histVars>>

NextLegacy ==
    \/ LegacyLoad
    \/ \E edit \in LegacyEdits : LegacyControlInput(edit)
    \/ \E value \in {"flat", "custom"} : LegacyEdgeTypeChange(value)
    \/ \E down \in BOOLEAN : LegacyMouseButton(down)
    \/ LegacyMouseMove
    \/ LegacySaveCurve

SpecLegacy == InitLegacy /\ [][NextLegacy]_vars

\* the meshes a later updateRib replaced
ReplacedMeshes == DOMAIN meshes \ {appRib}

\* C30: the scene holds at most one rib mesh, and every mesh that updateRib of
\* main.js replaced has its geometry and its material disposed, so that at most one
\* rib geometry is undisposed however many edits were made
C30_LegacyReleasesOldMesh ==
    /\ Cardinality({i \in DOMAIN meshes : meshes[i].inScene}) <= 1
    /\ \A i \in ReplacedMeshes :
          meshes[i].geometryDisposed /\ meshes[i].materialDisposed
    /\ Cardinality({i \in DOMAIN meshes : ~meshes[i].geometryDisposed}) <= 1

\* the first half alone: the replaced meshes have left the scene
C30_OneMeshInScene ==
    /\ Cardinality({i \in DOMAIN meshes : meshes[i].inScene}) <= 1
    /\ \A i \in ReplacedMeshes : ~meshes[i].inScene

\* after the load and two edits three rib geometries are undisposed
C30_GeometriesPileUp ==
    /\ Cardinality(DOMAIN meshes) = 3
    /\ \A i \in DOMAIN meshes : ~meshes[i].geometryDisposed /\ ~meshes[i].materialDisposed

=============================================================================
